---- MODULE Spec2Model ----
(***************************************************************************)
(* Model of the web-to-kindle conversion pipeline:                         *)
(*   src/src/web_scraper.py    is_substack_site, get_website_content,      *)
(*                             get_substack_content, get_generic_content   *)
(*   src/src/epub_converter.py download_image, process_images,             *)
(*                             convert_to_epub                             *)
(*   src/cli.py, src/telegram_bot.py   the two callers of convert_to_epub; *)
(*                             is_url, process_email, process_link, main   *)
(*   src/src/email_sender.py   send_email                                  *)
(*   src/disk_monitor.py       get_files_by_age, cleanup_old_files,        *)
(*                             delete_empty_directories,                   *)
(*                             monitor_disk_space                          *)
(*                                                                         *)
(* Text is modelled as a sequence of one-character strings, so that the    *)
(* string operations of the code (split, strip, lower, title, replace,     *)
(* substring tests) are computed and not assumed.                          *)
(***************************************************************************)
EXTENDS Integers, Sequences, FiniteSets

VARIABLES
    \* ---- convert_to_epub / process_images (epub_converter.py)
    epc,              \* position of the conversion: idle, images, written, done, raised
    caller,           \* who called convert_to_epub: none, direct, cli, bot
    preserve,         \* the caller's preserve_image_links option
    title,            \* article["Title"]
    imgs,             \* the src attribute of every <img> of article["Content"], as extracted
    srcs,             \* the src attribute of every <img> of the soup, as rewritten so far
    idx,              \* 1-based position of the for loop of process_images
    fetched,          \* per visited <img>: the response requests.get gave (NoFetch without src)
    items,            \* book.items: the EpubImage items added so far
    staged,           \* image files written to article_dir by download_image
    package,          \* the file at epub_path: none, partial, written
    verify,           \* the try block after the write: none, ok, raised
    processed_count,  \* process_images' processed_count
    failed_count,     \* process_images' failed_count
    result,           \* what convert_to_epub gave its caller: NoResult, a path, or an error
    \* ---- is_substack_site / get_website_content (web_scraper.py)
    cpc,              \* position of get_website_content: off, start, classified, dispatched, raised
    urlIn,            \* the URL given to get_website_content
    probe,            \* what requests.get(url) gives is_substack_site if it asks
    cres,             \* what is_substack_site gave: its return value and whether it probed
    extractor,        \* the extractor get_website_content called: none, substack, generic
    \* ---- get_substack_content (web_scraper.py)
    xpc,              \* position of get_substack_content: off, start, fetched, meta, titled,
                      \* sanitized, returned, raised
    xurl,             \* the url argument
    page,             \* the parsed response (soup), as fetched
    dom,              \* the elements of the soup in document order, as modified so far
    author,           \* the local variable author
    publication,      \* the local variable publication
    xtitle,           \* the local variable title
    snapshots,        \* files written to ./html
    xresult,          \* what get_substack_content gave: NoResult, an Article or an error
    \* ---- get_generic_content (web_scraper.py)
    gpc,              \* position of get_generic_content: off, start, extracted, saved,
                      \* returned, raised
    gurl,             \* the url argument
    gresp,            \* the response of requests.get and what readability makes of it
    gsnapshots,       \* files written to ./html
    gresult,          \* what get_generic_content gave: NoResult, an Article or an error
    \* ---- cleanup_old_files / delete_empty_directories (disk_monitor.py)
    jpc,              \* position of the janitor: off, idle, deleting, walk_html,
                      \* walk_epubs, returned, sleeping
    jfiles,           \* the files under ./html and ./epubs
    jdirs,            \* the directories ./html, ./epubs and those below them
    free_space,       \* the free_space argument of cleanup_old_files
    all_files,        \* the part of all_files the for loop has not visited yet
    space_freed,      \* the local variable space_freed
    attempts,         \* the files the loop has tried to delete, in order, and how it went
    walk,             \* the directories os.walk has still to yield
    jret,             \* what cleanup_old_files returned (NoReturn: nothing yet)
    \* ---- a request between convert_to_epub and send_email (telegram_bot.py)
    dpc,              \* position of the request: off, converting, converted, opened, failed
    \* ---- process_email, process_link (telegram_bot.py) and main (cli.py)
    conv,             \* state of the bot's conversation: off, EMAIL, END
    kindle_email,     \* the user's stored kindle_email (None: no user row or no address)
    replies,          \* what the bot replied and the cli echoed, in order
    bpc,              \* position of the request: off, idle, started, classified, extracted,
                      \* looked_up, assembled, delivered, recorded, ended
    requester,        \* who runs the request: none, bot, cli
    origin,           \* the handler that started it: none, email, message, cli
    burl,             \* the text taken as the URL
    env,              \* what the collaborators would give this request
    ebook,            \* the local variable ebook
    sent,             \* the (address, package) pairs send_email delivered
    articles,         \* the Article rows stored
    stages,           \* the stages that returned without error, in order
    \* ---- two convert_to_epub runs side by side (epub_converter.py)
    rpc,              \* per run, its position: off, idle, images, written, done
    rtitle,           \* per run, article["Title"]
    rimg,             \* per run, the name of the image file it stages (NoImage: none)
    fs_pkg,           \* per package path, the run whose package is at the path (0: none)
    fs_staged,        \* the staged image files on disk, each with the run that wrote it
    readback,         \* per run, the run whose package read_epub gave it (0: not read)
    removed,          \* per run, the staged files its cleanup removed
    rresult           \* per run, what convert_to_epub returned

epubVars == <<epc, caller, preserve, title, imgs, srcs, idx, fetched, items, staged,
              package, verify, processed_count, failed_count, result>>

classVars == <<cpc, urlIn, probe, cres, extractor>>

extractVars == <<xpc, xurl, page, dom, author, publication, xtitle, snapshots, xresult>>

genericVars == <<gpc, gurl, gresp, gsnapshots, gresult>>

janitorVars == <<jpc, jfiles, jdirs, free_space, all_files, space_freed, attempts, walk, jret>>

deliveryVars == <<dpc>>

botVars == <<conv, kindle_email, replies, bpc, requester, origin, burl, env, ebook, sent,
             articles, stages>>

raceVars == <<rpc, rtitle, rimg, fs_pkg, fs_staged, readback, removed, rresult>>

\* the components of the scraping and conversion pipeline, and the services around it
pipelineVars == <<epubVars, classVars, extractVars, genericVars>>
serviceVars == <<janitorVars, deliveryVars, botVars, raceVars>>

vars == <<pipelineVars, serviceVars>>

-----------------------------------------------------------------------------
(* Bounds of the model *)

\* most <img> elements in one article
MaxImgs == 3

-----------------------------------------------------------------------------
(* Text helpers: Python str operations on sequences of characters *)

UpperChars == <<"A","B","C","D","E","F","G","H","I","J","K","L","M",
                "N","O","P","Q","R","S","T","U","V","W","X","Y","Z">>
LowerChars == <<"a","b","c","d","e","f","g","h","i","j","k","l","m",
                "n","o","p","q","r","s","t","u","v","w","x","y","z">>
DigitChars == <<"0","1","2","3","4","5","6","7","8","9">>

Range(s) == {s[i] : i \in DOMAIN s}

IsUpper(c) == c \in Range(UpperChars)
IsLower(c) == c \in Range(LowerChars)
IsAlpha(c) == IsUpper(c) \/ IsLower(c)
IsDigit(c) == c \in Range(DigitChars)
\* str.isalnum for one character
IsAlnum(c) == IsAlpha(c) \/ IsDigit(c)
\* the characters str.strip removes
IsSpace(c) == c \in {" ", "\n", "\t"}

LowerChar(c) == IF IsUpper(c) THEN LowerChars[CHOOSE i \in 1..26 : UpperChars[i] = c] ELSE c
UpperChar(c) == IF IsLower(c) THEN UpperChars[CHOOSE i \in 1..26 : LowerChars[i] = c] ELSE c

\* str.lower
Lower(s) == [i \in DOMAIN s |-> LowerChar(s[i])]

\* str.startswith / str.endswith
StartsWith(s, p) == Len(p) <= Len(s) /\ SubSeq(s, 1, Len(p)) = p
EndsWith(s, p) == Len(p) <= Len(s) /\ SubSeq(s, Len(s) - Len(p) + 1, Len(s)) = p

\* p in s
Contains(s, p) == \E i \in 1..(Len(s) + 1) : i + Len(p) - 1 <= Len(s) /\ SubSeq(s, i, i + Len(p) - 1) = p

\* s.split(c)[-1]: what follows the last c (all of s without a c)
AfterLast(s, c) ==
    LET at == {i \in DOMAIN s : s[i] = c}
    IN IF at = {} THEN s
       ELSE SubSeq(s, (CHOOSE i \in at : \A j \in at : j <= i) + 1, Len(s))

\* s.split(c)[0]: what precedes the first c (all of s without a c)
BeforeFirst(s, c) ==
    LET at == {i \in DOMAIN s : s[i] = c}
    IN IF at = {} THEN s
       ELSE SubSeq(s, 1, (CHOOSE i \in at : \A j \in at : i <= j) - 1)

\* s[:n]
Prefix(s, n) == SubSeq(s, 1, IF Len(s) < n THEN Len(s) ELSE n)

\* s.replace(a, b) for single characters a, b
ReplaceChar(s, a, b) == [i \in DOMAIN s |-> IF s[i] = a THEN b ELSE s[i]]

\* str.strip
Strip(s) ==
    LET keep == {i \in DOMAIN s : ~IsSpace(s[i])}
    IN IF keep = {} THEN <<>>
       ELSE SubSeq(s, CHOOSE i \in keep : \A j \in keep : i <= j,
                      CHOOSE i \in keep : \A j \in keep : j <= i)

-----------------------------------------------------------------------------
(* epub_converter.py: inputs *)

S_http == <<"h","t","t","p">>
S_png == <<".","p","n","g">>
S_jpg == <<".","j","p","g">>

\* image URLs an article may reference
\*   UrlAX, UrlBX  two different URLs with the same last path segment
\*   UrlDir        a URL whose last path segment is empty
\*   UrlOdd        a URL whose last path segment has no filename character
\*   UrlRaw        a URL whose last path segment has no extension
UrlAX  == S_http \o <<":","/","/","a","/","x">> \o S_png
UrlBX  == S_http \o <<":","/","/","b","/","x">> \o S_png \o <<"?","w","=","1">>
UrlDir == S_http \o <<":","/","/","a","/","d","/">>
UrlOdd == S_http \o <<":","/","/","a","/","$">>
UrlRaw == S_http \o <<":","/","/","a","/","p","i","c">>

ImageUrls == {UrlAX, UrlBX, UrlDir, UrlOdd, UrlRaw}

\* an <img> without a src attribute (img.get('src') is None or '')
NoSrc == <<>>

\* what requests.get(url) gives download_image, and whether the file it then
\* opens in images_dir can be written
\*   kind "exc": a transport exception; kind "resp": a response with a status code,
\*   a content-type header (Absent when the header is missing) and a body
Absent == "absent"
Resp(status, ctype, body, saved) ==
    [kind |-> "resp", status |-> status, ctype |-> ctype, body |-> body, saved |-> saved]
RequestException ==
    [kind |-> "exc", status |-> 0, ctype |-> Absent, body |-> "", saved |-> FALSE]
Responses ==
    { RequestException,
      Resp(404, "text/html", "bytes", TRUE),
      Resp(200, "image/png", "bytes", TRUE),
      Resp(200, "image/gif", "bytes", TRUE),
      Resp(200, Absent,      "",      TRUE),
      Resp(200, "image/png", "bytes", FALSE) }

\* the responses the model lets a URL get: all of them for UrlAX; for the URLs
\* that differ from it only in the file name they give, the transport exception
\* and the stored 200 image/png response
ResponsesFor(url) ==
    IF url = UrlAX THEN Responses
    ELSE {RequestException, Resp(200, "image/png", "bytes", TRUE)}

\* the entry of fetched for an <img> that was not requested
NoFetch == [kind |-> "none", status |-> 0, ctype |-> Absent, body |-> "", saved |-> FALSE]

T_MyPost == <<"M","y"," ","P","o","s","t">>
Titles == {T_MyPost}

NoResult == [kind |-> "none"]

-----------------------------------------------------------------------------
(* epub_converter.py: download_image *)

S_gif == <<".","g","i","f">>
S_webp == <<".","w","e","b","p">>
S_jpeg == <<".","j","p","e","g">>
S_image_ == <<"i","m","a","g","e","_">>

\* ext_map.get(content_type, '.jpg')
ext_map(content_type) ==
    CASE content_type = "image/jpeg" -> S_jpg
      [] content_type = "image/png"  -> S_png
      [] content_type = "image/gif"  -> S_gif
      [] content_type = "image/webp" -> S_webp
      [] OTHER -> S_jpg

\* str(hash(url)): one digit string per URL, different URLs taken to hash differently
UrlList == <<UrlAX, UrlBX, UrlDir, UrlOdd, UrlRaw>>
HashOf(url) == <<DigitChars[CHOOSE i \in DOMAIN UrlList : UrlList[i] = url]>>

\* the characters download_image keeps in a file name: c.isalnum() or c in '._-'
IsNameChar(c) == IsAlnum(c) \/ c \in {".", "_", "-"}

\* (None, None, None)
NoneTriple == [name |-> <<>>, media_type |-> "", content |-> "", wrote |-> <<>>]

\* the file name download_image derives for url under content_type
ImageName(url, content_type) ==
    LET original_filename == BeforeFirst(AfterLast(url, "/"), "?")
        generated == S_image_ \o HashOf(url) \o ext_map(content_type)
        chosen == IF original_filename = <<>> \/ StartsWith(original_filename, S_http)
                  THEN generated ELSE original_filename
    IN SelectSeq(chosen, IsNameChar)

\* a download_image that treats every response as a success
download_image_any_status(url, resp) ==
    IF resp.kind = "exc" THEN NoneTriple
    ELSE LET content_type == IF resp.ctype = Absent THEN "image/jpeg" ELSE resp.ctype
             image_name == ImageName(url, content_type)
         IN IF image_name = <<>> \/ ~resp.saved THEN NoneTriple
            ELSE [name |-> image_name, media_type |-> content_type,
                  content |-> resp.body, wrote |-> image_name]

\* download_image(url, images_dir, article_title): the triple it returns and the file
\* it wrote (wrote = <<>>: none). An exception of requests.get, the open() of
\* images_dir itself when image_name is empty, and a failing write end in
\* (None, None, None).
download_image(url, resp) ==
    IF resp.kind = "exc" THEN NoneTriple
    ELSE IF resp.status = 200
    THEN LET content_type == IF resp.ctype = Absent THEN "image/jpeg" ELSE resp.ctype
             image_name == ImageName(url, content_type)
         IN IF image_name = <<>> \/ ~resp.saved THEN NoneTriple
            ELSE [name |-> image_name, media_type |-> content_type,
                  content |-> resp.body, wrote |-> image_name]
    ELSE NoneTriple

-----------------------------------------------------------------------------
(* epub_converter.py: process_images, convert_to_epub *)

S_Images == <<"I","m","a","g","e","s","/">>
S_images == <<"i","m","a","g","e","s","/">>
S_epub == <<".","e","p","u","b">>

\* epub.EpubImage(uid=image_name, file_name=f'Images/{image_name}', ...)
EpubImage(r) == [uid |-> r.name, file_name |-> S_Images \o r.name,
                 media_type |-> r.media_type, content |-> r.content]

\* the value process_images assigns to img['src']
RewrittenSrc(image_name) == S_images \o image_name

\* the test "if image_name and media_type and image_content"
Usable(r) == r.name # <<>> /\ r.media_type # "" /\ r.content # ""

\* number of parameters of convert_to_epub(article)
ConvertArity == 1

\* number of arguments each caller passes: cli main and the bot's process_link pass
\* the article and the preserve_image_links option
CallArgs(c) == IF c = "direct" THEN 1 ELSE 2

\* safe_dirname = title.lower().replace(' ', '-')[:70]
safe_dirname(t) == Prefix(ReplaceChar(Lower(t), " ", "-"), 70)

\* epub_path = os.path.join('./epubs', safe_dirname, f"{title}.epub")
epub_path(t) == [kind |-> "path", dir |-> safe_dirname(t), file |-> t \o S_epub]

TypeError == [kind |-> "error", type |-> "TypeError"]

\* the image media types ebooklib's reader turns into EpubImage items
IMAGE_MEDIA_TYPES == {"image/jpeg", "image/jpg", "image/png", "image/svg+xml"}

\* len(image_items) of the package read back
ReadBackImageCount(its) ==
    Cardinality({k \in DOMAIN its : its[k].media_type \in IMAGE_MEDIA_TYPES})

\* the extensions the cleanup of convert_to_epub removes
HasImageExt(f) ==
    \E e \in {S_jpg, S_jpeg, S_png, S_gif, S_webp} : EndsWith(Lower(f), e)

SeqsUpTo(S, n) == UNION {[1..k -> S] : k \in 0..n}

EpubInit ==
    /\ epc = "idle"
    /\ caller = "none"
    /\ preserve = FALSE
    /\ title \in Titles
    /\ imgs \in SeqsUpTo(ImageUrls \cup {NoSrc}, MaxImgs)
    /\ srcs = imgs
    /\ idx = 0
    /\ fetched = <<>>
    /\ items = <<>>
    /\ staged = {}
    /\ package = "none"
    /\ verify = "none"
    /\ processed_count = 0
    /\ failed_count = 0
    /\ result = NoResult

\* the call convert_to_epub(...) made by caller c with option p: Python binds the
\* arguments to the parameter list before the body runs
Invoke(c, p) ==
    /\ epc = "idle"
    /\ caller' = c
    /\ preserve' = p
    /\ IF CallArgs(c) > ConvertArity
       THEN /\ epc' = "raised"
            /\ result' = TypeError
            /\ idx' = idx
       ELSE /\ epc' = "images"
            /\ result' = result
            /\ idx' = 1
    /\ UNCHANGED <<title, imgs, srcs, fetched, items, staged, package, verify,
                   processed_count, failed_count>>
    /\ UNCHANGED <<classVars, extractVars, genericVars, serviceVars>>

\* cli.py main: convert_to_epub(content, preserve_image_links)
CliMain == \E p \in BOOLEAN : Invoke("cli", p)

\* telegram_bot.py process_link: convert_to_epub(content, preserve_image_links=...)
BotProcessLink == \E p \in BOOLEAN : Invoke("bot", p)

\* convert_to_epub(article), as the function is declared
DirectCall == Invoke("direct", FALSE)

\* a loop that asks again for an image whose fetch failed
ProcessImageRetrying ==
    /\ epc = "images"
    /\ idx <= Len(imgs)
    /\ IF srcs[idx] = NoSrc
       THEN /\ fetched' = Append(fetched, NoFetch)
            /\ idx' = idx + 1
            /\ UNCHANGED <<srcs, items, staged, processed_count, failed_count>>
       ELSE \E resp \in ResponsesFor(srcs[idx]) :
              LET r == download_image(srcs[idx], resp)
              IN /\ fetched' = Append(fetched, resp)
                 /\ staged' = IF r.wrote = <<>> THEN staged ELSE staged \cup {r.wrote}
                 /\ IF Usable(r)
                    THEN /\ items' = Append(items, EpubImage(r))
                         /\ srcs' = [srcs EXCEPT ![idx] = RewrittenSrc(r.name)]
                         /\ processed_count' = processed_count + 1
                         /\ failed_count' = failed_count
                         /\ idx' = idx + 1
                    ELSE /\ failed_count' = failed_count + 1
                         /\ idx' = idx
                         /\ UNCHANGED <<items, srcs, processed_count>>
    /\ UNCHANGED <<epc, caller, preserve, title, imgs, package, verify, result>>
    /\ UNCHANGED <<classVars, extractVars, genericVars, serviceVars>>

\* one iteration of "for img in soup.find_all('img')"
ProcessImage ==
    /\ epc = "images"
    /\ idx <= Len(imgs)
    /\ idx' = idx + 1
    /\ IF srcs[idx] = NoSrc
       THEN /\ fetched' = Append(fetched, NoFetch)
            /\ UNCHANGED <<srcs, items, staged, processed_count, failed_count>>
       ELSE \E resp \in ResponsesFor(srcs[idx]) :
              LET r == download_image(srcs[idx], resp)
              IN /\ fetched' = Append(fetched, resp)
                 /\ staged' = IF r.wrote = <<>> THEN staged ELSE staged \cup {r.wrote}
                 /\ IF Usable(r)
                    THEN /\ items' = Append(items, EpubImage(r))
                         /\ srcs' = [srcs EXCEPT ![idx] = RewrittenSrc(r.name)]
                         /\ processed_count' = processed_count + 1
                         /\ failed_count' = failed_count
                    ELSE /\ failed_count' = failed_count + 1
                         /\ UNCHANGED <<items, srcs, processed_count>>
    /\ UNCHANGED <<epc, caller, preserve, title, imgs, package, verify, result>>
    /\ UNCHANGED <<classVars, extractVars, genericVars, serviceVars>>

\* the exception epub.write_epub raised, as convert_to_epub lets it through
WriteError == [kind |-> "error", type |-> "write"]

\* the end of process_images and epub.write_epub(epub_path, book): the call is in
\* no try block, so an exception of the write leaves convert_to_epub as it is,
\* with the file at epub_path absent or begun
WriteEpub ==
    /\ epc = "images"
    /\ idx > Len(imgs)
    /\ \/ /\ epc' = "written"
          /\ package' = "written"
          /\ result' = result
       \/ /\ epc' = "raised"
          /\ package' \in {"none", "partial"}
          /\ result' = WriteError
    /\ UNCHANGED <<caller, preserve, title, imgs, srcs, idx, fetched, items, staged,
                   verify, processed_count, failed_count>>
    /\ UNCHANGED <<classVars, extractVars, genericVars, serviceVars>>

\* a verification that undoes the conversion when it fails
VerifyEpubRollback ==
    /\ epc = "written"
    /\ \/ /\ verify' = "ok"
          /\ epc' = "done"
          /\ staged' = IF ReadBackImageCount(items) > 0
                       THEN {f \in staged : ~HasImageExt(f)}
                       ELSE staged
          /\ result' = epub_path(title)
          /\ package' = package
       \/ /\ verify' = "raised"
          /\ epc' = "raised"
          /\ staged' = {}
          /\ package' = "none"
          /\ result' = WriteError
    /\ UNCHANGED <<caller, preserve, title, imgs, srcs, idx, fetched, items,
                   processed_count, failed_count>>
    /\ UNCHANGED <<classVars, extractVars, genericVars, serviceVars>>

\* the verification of the written package, the cleanup and "return epub_path".
\* epub.read_epub and os.listdir run before the first os.remove and each
\* os.remove has a handler of its own, so an exception of the try block is
\* raised before anything was removed; "except Exception" logs it and the
\* function goes on to its return.
VerifyEpub ==
    /\ epc = "written"
    /\ epc' = "done"
    /\ \/ /\ verify' = "ok"
          /\ staged' = IF ReadBackImageCount(items) > 0
                       THEN {f \in staged : ~HasImageExt(f)}
                       ELSE staged
       \/ /\ verify' = "raised"
          /\ staged' = staged
    /\ result' = epub_path(title)
    /\ UNCHANGED <<caller, preserve, title, imgs, srcs, idx, fetched, items, package,
                   processed_count, failed_count>>
    /\ UNCHANGED <<classVars, extractVars, genericVars, serviceVars>>

EpubNext ==
    \/ CliMain
    \/ BotProcessLink
    \/ DirectCall
    \/ ProcessImage
    \/ WriteEpub
    \/ VerifyEpub


-----------------------------------------------------------------------------
(* Claims about convert_to_epub and process_images, checked under SpecEpub *)

Count(S) == Cardinality(S)

\* the conversion has ended, with a path or with an exception
EpubEnded == epc \in {"done", "raised"}

\* image i was requested and the request gave HTTP 200
FetchSucceeded(i) == fetched[i].kind = "resp" /\ fetched[i].status = 200
\* image i was requested and the request raised or gave another status
FetchFailed(i) ==
    \/ fetched[i].kind = "exc"
    \/ fetched[i].kind = "resp" /\ fetched[i].status # 200

\* image i was requested, the request gave HTTP 200 with a non-empty body and
\* content type, the URL gives a non-empty file name and the file was written
Localizable(i) ==
    /\ FetchSucceeded(i)
    /\ fetched[i].body # ""
    /\ fetched[i].ctype # ""
    /\ fetched[i].saved
    /\ ImageName(imgs[i], IF fetched[i].ctype = Absent THEN "image/jpeg"
                          ELSE fetched[i].ctype) # <<>>

\* C1: convert_to_epub honours the preserveImageLinks option that cli main and the
\* bot's process_link pass: with the option true no image is fetched, no resource
\* is attached, every image source is left unchanged and a package path is still
\* returned; with the option false localization runs.
C1_PreserveOptionHonoured ==
    (EpubEnded /\ caller \in {"cli", "bot"}) =>
        /\ result.kind = "path"
        /\ preserve => (items = <<>> /\ srcs = imgs /\ fetched = <<>>)
        /\ ~preserve => Len(fetched) = Len(imgs)

\* C2 is about conversions whose package could be written (C21 is about the
\* others).
\* C2 as stated: nothing is raised, the package is produced, the number of attached
\* resources equals the number of fetches that gave HTTP 200 and the failure
\* counter equals the number of fetches that raised or gave another status.
C2_PartialFailureAsStated ==
    (EpubEnded /\ caller = "direct" /\ result # WriteError) =>
        /\ result.kind = "path"
        /\ Len(items) = Count({i \in DOMAIN fetched : FetchSucceeded(i)})
        /\ failed_count = Count({i \in DOMAIN fetched : FetchFailed(i)})

\* C2 as amended: partial image failure never aborts packaging; the number of
\* attached resources equals the number of image references whose fetch gave
\* HTTP 200 with a non-empty body, content type and file name, and the failure
\* counter equals the number of all other image references with a source.
C2_PartialFailureAmended ==
    (EpubEnded /\ caller = "direct" /\ result # WriteError) =>
        /\ result.kind = "path"
        /\ Len(fetched) = Len(imgs)
        /\ Len(items) = Count({i \in DOMAIN fetched : Localizable(i)})
        /\ processed_count = Len(items)
        /\ failed_count = Count({i \in DOMAIN fetched : imgs[i] # NoSrc /\ ~Localizable(i)})

\* three images, fetch #2 failing: 2 resources and a failure count of 1
C2_Witness ==
    /\ epc = "done"
    /\ Len(imgs) = 3
    /\ FetchSucceeded(1) /\ FetchFailed(2) /\ FetchSucceeded(3)
    /\ Len(items) = 2
    /\ failed_count = 1

\* C3: with localization enabled, after process_images every image source in the
\* final content equals the file_name of an attached resource, and no original
\* remote URL remains among the image sources.
C3_EverySourceResolves ==
    (epc = "done") =>
        \A i \in DOMAIN srcs :
            srcs[i] # NoSrc =>
                /\ \E k \in DOMAIN items : items[k].file_name = srcs[i]
                /\ srcs[i] \notin ImageUrls

\* C4: a source is rewritten if and only if its fetch succeeded and its resource
\* was attached; an image whose fetch failed keeps its source and adds no
\* resource; every rewritten source points to an attached resource.
C4_RewrittenIffAttached ==
    (epc = "done") =>
        /\ Len(items) = Count({i \in DOMAIN srcs : srcs[i] # imgs[i]})
        /\ \A i \in DOMAIN srcs :
            /\ srcs[i] # imgs[i] => FetchSucceeded(i)
            /\ FetchFailed(i) => srcs[i] = imgs[i]
            /\ srcs[i] # imgs[i] => \E k \in DOMAIN items : items[k].file_name = srcs[i]

\* C5: no two attached resources share a localName, and every localName
\* referenced by the content has exactly one attached resource.
C5_UniqueLocalNames ==
    (epc = "done") =>
        /\ \A j, k \in DOMAIN items : j # k => items[j].uid # items[k].uid
        /\ \A i \in DOMAIN srcs :
            srcs[i] # imgs[i] =>
                Count({k \in DOMAIN items : RewrittenSrc(items[k].uid) = srcs[i]}) = 1

-----------------------------------------------------------------------------
(* web_scraper.py: urlparse, as far as is_substack_site uses it *)

S_https == <<"h","t","t","p","s">>
S_substack == <<"s","u","b","s","t","a","c","k">>
S_substack_com == S_substack \o <<".","c","o","m">>
S_p_ == <<"/","p","/">>
S_gov == <<".","g","o","v">>
S_edu == <<".","e","d","u">>

\* position of the first character of s that is in set C (0: none)
FirstIn(s, C) ==
    LET at == {i \in DOMAIN s : s[i] \in C}
    IN IF at = {} THEN 0 ELSE CHOOSE i \in at : \A j \in at : i <= j

\* s up to (not including) its first character in C (all of s without one)
UpTo(s, C) == IF FirstIn(s, C) = 0 THEN s ELSE SubSeq(s, 1, FirstIn(s, C) - 1)
\* s after its first character in C (empty without one)
After(s, C) == IF FirstIn(s, C) = 0 THEN <<>> ELSE SubSeq(s, FirstIn(s, C) + 1, Len(s))
\* s from its first character in C on (empty without one)
From(s, C) == IF FirstIn(s, C) = 0 THEN <<>> ELSE SubSeq(s, FirstIn(s, C), Len(s))

IsSchemeChar(c) == IsAlnum(c) \/ c \in {"+", "-", "."}

\* urlsplit: the url has a scheme when a ':' follows a letter and scheme characters
HasScheme(url) ==
    /\ FirstIn(url, {":"}) > 1
    /\ IsAlpha(url[1])
    /\ \A k \in 1..(FirstIn(url, {":"}) - 1) : IsSchemeChar(url[k])

UrlScheme(url) == IF HasScheme(url) THEN Lower(UpTo(url, {":"})) ELSE <<>>
UrlAfterScheme(url) == IF HasScheme(url) THEN After(url, {":"}) ELSE url

\* urlsplit: a netloc follows '//' and ends before the first of '/', '?', '#'
HasNetloc(url) == StartsWith(UrlAfterScheme(url), <<"/","/">>)
UrlNetloc(url) ==
    IF HasNetloc(url)
    THEN UpTo(SubSeq(UrlAfterScheme(url), 3, Len(UrlAfterScheme(url))), {"/", "?", "#"})
    ELSE <<>>
UrlAfterNetloc(url) ==
    IF HasNetloc(url)
    THEN From(SubSeq(UrlAfterScheme(url), 3, Len(UrlAfterScheme(url))), {"/", "?", "#"})
    ELSE UrlAfterScheme(url)

\* urlsplit raises ValueError("Invalid IPv6 URL") for a netloc with one bracket only
UrlParseRaises(url) ==
    ("[" \in Range(UrlNetloc(url))) # ("]" \in Range(UrlNetloc(url)))

\* urlparse(url).path
UrlPath(url) == UpTo(UrlAfterNetloc(url), {"?", "#"})

\* urlparse(url).hostname: the netloc without userinfo and port, lower-cased;
\* <<>> stands for None
UrlHostname(url) ==
    LET hostinfo == AfterLast(UrlNetloc(url), "@")
    IN IF "[" \in Range(hostinfo)
       THEN Lower(UpTo(After(hostinfo, {"["}), {"]"}))
       ELSE Lower(UpTo(hostinfo, {":"}))

-----------------------------------------------------------------------------
(* web_scraper.py: is_substack_site, get_website_content *)

S_https_ == S_https \o <<":","/","/">>
S_a_io == <<"a",".","i","o">>

\* URLs a user may send
CU_Sub      == S_https_ \o <<"f","o","o",".">> \o S_substack_com \o S_p_ \o <<"x">>
CU_SubUpper == S_https_ \o <<"F","O","O",".","S","U","B","S","T","A","C","K",".","C","O","M","/","a">>
CU_Custom   == S_https_ \o S_a_io \o S_p_ \o <<"x">>
CU_Plain    == S_https_ \o S_a_io \o <<"/","a","b","o","u","t">>
CU_Query    == S_https_ \o S_a_io \o <<"/","x","?","u","=">> \o S_substack_com
CU_UpperP   == S_https_ \o S_a_io \o <<"/","P","/","x">>
CU_QueryP   == S_https_ \o S_a_io \o <<"/","x","?","n","=">> \o S_p_ \o <<"y">>
CU_Edu      == S_https_ \o <<"u">> \o S_edu \o S_p_ \o <<"x">>
CU_Gov      == S_https_ \o <<"w">> \o S_gov \o <<":","8","0">> \o S_p_ \o <<"x">>
CU_NoScheme == S_a_io \o S_p_ \o <<"x">>
CU_BadIPv6  == S_http \o <<":","/","/","[","b","a","d">> \o S_p_ \o <<"x">>
CU_BadSub   == S_http \o <<":","/","/","[","x",".">> \o S_substack_com \o S_p_ \o <<"x">>

ClassifierUrls == {CU_Sub, CU_SubUpper, CU_Custom, CU_Plain, CU_Query, CU_UpperP,
                   CU_QueryP, CU_Edu, CU_Gov, CU_NoScheme, CU_BadIPv6, CU_BadSub}

\* page texts a probe may fetch
HtmlPlain    == <<"<","p",">","h","i","<","/","p",">">>
HtmlSubstack == <<"<","a",">">> \o S_substack \o <<"c","d","n",".","c","o","m">>
HtmlUpper    == <<"S","u","b","s","t","a","c","k","-","A","p","p">>

ProbeExc == [kind |-> "exc", status |-> 0, text |-> <<>>]
ProbeResponses ==
    { ProbeExc,
      [kind |-> "resp", status |-> 200, text |-> HtmlPlain],
      [kind |-> "resp", status |-> 200, text |-> HtmlSubstack],
      [kind |-> "resp", status |-> 200, text |-> HtmlUpper],
      [kind |-> "resp", status |-> 404, text |-> HtmlSubstack] }

\* requests.get raises without sending anything for a URL with no http(s) scheme or
\* no host; any other URL may get any response
ProbeOutcomes(u) ==
    IF UrlScheme(u) \notin {S_http, S_https} \/ UrlHostname(u) = <<>> \/ UrlParseRaises(u)
    THEN {ProbeExc}
    ELSE ProbeResponses

\* substack_indicators
substack_indicators ==
    { S_substack,
      <<"g","e","n","e","r","a","t","o","r","\""," ","c","o","n","t","e","n","t","=","\"">> \o S_substack,
      S_substack \o <<"-","a","p","p">>,
      S_substack \o <<"c","d","n",".","c","o","m">> }

\* what is_substack_site gives
\* a returned boolean v, with whether the probe was sent
Ret(v, p) == [ret |-> IF v THEN "True" ELSE "False", probed |-> p]
\* an exception leaving the function
RetRaised == [ret |-> "raised", probed |-> FALSE]

\* an is_substack_site that tests the URL as typed, without lower()
is_substack_site_case_sensitive(u, resp) ==
    IF Contains(u, S_substack_com) THEN Ret(TRUE, FALSE)
    ELSE IF UrlParseRaises(u) THEN RetRaised
    ELSE IF Contains(Lower(UrlPath(u)), S_p_)
    THEN IF resp.kind = "exc"
         THEN Ret(/\ UrlHostname(u) # <<>>
                  /\ ~EndsWith(UrlHostname(u), S_gov)
                  /\ ~EndsWith(UrlHostname(u), S_edu), TRUE)
         ELSE Ret(/\ resp.status = 200
                  /\ \E indicator \in substack_indicators :
                        Contains(Lower(resp.text), indicator), TRUE)
    ELSE Ret(FALSE, FALSE)

\* is_substack_site(url) when requests.get(url) would give resp: the value returned
\* (or the exception that leaves the function) and whether the probe was sent
is_substack_site(u, resp) ==
    IF Contains(Lower(u), S_substack_com) THEN Ret(TRUE, FALSE)
    ELSE IF UrlParseRaises(u) THEN RetRaised
    ELSE IF Contains(Lower(UrlPath(u)), S_p_)
    THEN IF resp.kind = "exc"
         THEN Ret(/\ UrlHostname(u) # <<>>
                  /\ ~EndsWith(UrlHostname(u), S_gov)
                  /\ ~EndsWith(UrlHostname(u), S_edu), TRUE)
         ELSE Ret(/\ resp.status = 200
                  /\ \E indicator \in substack_indicators :
                        Contains(Lower(resp.text), indicator), TRUE)
    ELSE Ret(FALSE, FALSE)

NoRet == [ret |-> "none", probed |-> FALSE]

ClassInit ==
    /\ cpc = "start"
    /\ urlIn \in ClassifierUrls
    /\ probe \in ProbeOutcomes(urlIn)
    /\ cres = NoRet
    /\ extractor = "none"

\* the call is_substack_site(url) of get_website_content
Classify ==
    /\ cpc = "start"
    /\ cres' = is_substack_site(urlIn, probe)
    /\ cpc' = "classified"
    /\ UNCHANGED <<urlIn, probe, extractor>>
    /\ UNCHANGED <<epubVars, extractVars, genericVars, serviceVars>>

\* get_website_content: the branch on the classifier's value; an exception of the
\* classifier leaves get_website_content unhandled
Dispatch ==
    /\ cpc = "classified"
    /\ IF cres = RetRaised
       THEN cpc' = "raised" /\ extractor' = extractor
       ELSE /\ cpc' = "dispatched"
            /\ extractor' = IF cres.ret = "True" THEN "substack" ELSE "generic"
    /\ UNCHANGED <<urlIn, probe, cres>>
    /\ UNCHANGED <<epubVars, extractVars, genericVars, serviceVars>>

ClassNext == Classify \/ Dispatch

-----------------------------------------------------------------------------
(* More text helpers *)

\* str.title: the first letter of every run of letters upper-cased, the others lowered
TitleCase(s) ==
    [i \in DOMAIN s |-> IF i = 1 \/ ~IsAlpha(s[i - 1]) THEN UpperChar(s[i]) ELSE LowerChar(s[i])]

\* s.replace(a, b): every occurrence of a, left to right
RECURSIVE ReplaceAll(_, _, _)
ReplaceAll(s, a, b) ==
    IF Len(s) < Len(a) \/ a = <<>> THEN s
    ELSE IF StartsWith(s, a) THEN b \o ReplaceAll(SubSeq(s, Len(a) + 1, Len(s)), a, b)
    ELSE <<Head(s)>> \o ReplaceAll(Tail(s), a, b)

\* s.split(sep)[-1]
RECURSIVE LastPart(_, _)
LastPart(s, sep) ==
    IF ~Contains(s, sep) THEN s
    ELSE LET at == CHOOSE i \in 1..Len(s) :
                      /\ SubSeq(s, i, i + Len(sep) - 1) = sep
                      /\ \A j \in 1..(i - 1) : SubSeq(s, j, j + Len(sep) - 1) # sep
         IN LastPart(SubSeq(s, at + Len(sep), Len(s)), sep)

\* an optional text: None, or a str (which may be empty)
None == [some |-> FALSE, val |-> <<>>]
Some(v) == [some |-> TRUE, val |-> v]
\* "not x" for an optional text
Falsy(o) == ~o.some \/ o.val = <<>>

-----------------------------------------------------------------------------
(* web_scraper.py: the pages get_substack_content may be given *)

\* most heading elements in one page
MaxHeadings == 2

S_pc_display_flex == <<"p","c","-","d","i","s","p","l","a","y","-","f","l","e","x">>
S_button_wrapper  == <<"b","u","t","t","o","n","-","w","r","a","p","p","e","r">>
S_modal           == <<"m","o","d","a","l">>
S_popup           == <<"p","o","p","u","p">>

\* An element of the page: its tag, its class attribute, its text, the classes of
\* the elements it is nested in, and whether it lies inside the <article>.
Node(tag, cls, text, anc, in_article) ==
    [tag |-> tag, cls |-> cls, text |-> text, anc |-> anc, in_article |-> in_article]

\* the headings a page may hold
HPlain    == Node("h1", <<>>, <<" ","M","y"," ","P","o","s","t"," ">>, {}, TRUE)
HChrome   == Node("h1", <<>>, <<"I","g","n","o","r","e","d">>, {S_pc_display_flex}, TRUE)
HBlank    == Node("h1", <<>>, <<" ">>, {}, TRUE)
HHowTo    == Node("h1", <<"p","o","s","t","-","t","i","t","l","e">>, <<"H","o","w"," ","T","o">>, {}, TRUE)
HBrand    == Node("h2", <<"P","u","b","-","N","a","m","e">>, <<"B","r","a","n","d">>, {}, FALSE)
HNoText   == Node("h3", <<"h","e","a","d","e","r">>, <<>>, {}, FALSE)
HLongName == Node("h2", <<"b","r","a","n","d">>, <<"Q","u","a","r","t","e","r","l","y"," ","R","e","v","i","e","w"," ","O","f"," ","I","n","t","e","r","e","s","t","i","n","g"," ","T","o","p","i","c","s"," ","I","n"," ","S","c","i","e","n","c","e"," ","W","e","e","k","l","y">>, {}, FALSE)

\* an h1 of the page header, outside the <article>
HOutside  == Node("h1", <<>>, <<"S","i","t","e">>, {}, FALSE)
\* an h1 of the article that itself has a class the sanitizer selects
HPopup    == Node("h1", S_popup, <<"P","o","p">>, {}, TRUE)

HeadingKinds == {HPlain, HChrome, HBlank, HHowTo, HBrand, HNoText, HLongName, HOutside, HPopup}

\* <meta property="og:site_name" content=...>: missing, named, blank
Ogs == {None, Some(<<" ","W","i","n","-","W","i","n"," ">>), Some(<<" "," ">>)}

\* <title>: missing, with a publication, with a generic term, with an empty last part
TitleTags == {None, Some(<<"T"," ","|"," ","P","u","b">>), Some(<<"T"," ","|"," ","B","l","o","g">>), Some(<<"T"," ","|"," ">>)}

\* <div class="profile-hover-card-target">: missing, without <a>, with <a>
AuthorEls == {"absent", "nolink", "link"}
AuthorLinkText == <<" ","J","a","n","e"," ">>

Pages == [og : Ogs, title_tag : TitleTags, has_article : BOOLEAN,
          author_el : AuthorEls, nodes : SeqsUpTo(HeadingKinds, MaxHeadings)]

NoPage == [og |-> None, title_tag |-> None, has_article |-> FALSE,
           author_el |-> "absent", nodes |-> <<>>]

X_Testpub == S_https_ \o <<"t","e","s","t","p","u","b",".">> \o S_substack_com \o S_p_ \o <<"t">>
X_MyPub   == S_https_ \o <<"m","y","-","p","u","b",".">> \o S_substack_com \o S_p_ \o <<"t">>

ExtractUrls == {X_Testpub, X_MyPub, CU_Custom}

-----------------------------------------------------------------------------
(* web_scraper.py: get_substack_content *)

S_Unknown_Title  == <<"U","n","k","n","o","w","n"," ","T","i","t","l","e">>
S_Unknown_Author == <<"U","n","k","n","o","w","n"," ","A","u","t","h","o","r">>
S_dot_substack_com == <<".">> \o S_substack_com
S_pipe == <<" ","|"," ">>

\* author_element.find('a').text.strip() if author_element else "Unknown Author";
\* find('a') is None without a link, and .text of None raises AttributeError
AuthorRaises(pg) == pg.author_el = "nolink"
get_author(pg) ==
    IF pg.author_el = "absent" THEN S_Unknown_Author ELSE Strip(AuthorLinkText)

\* the class_ filter of find_all(['h1', 'h2', 'h3'], class_=...)
class_keywords == {<<"p","u","b","l","i","c","a","t","i","o","n">>, <<"h","e","a","d","e","r">>, <<"t","i","t","l","e">>, <<"n","a","m","e">>, <<"b","r","a","n","d">>}
HasBrandClass(n) ==
    /\ n.tag \in {"h1", "h2", "h3"}
    /\ n.cls # <<>>
    /\ \E keyword \in class_keywords : Contains(Lower(n.cls), keyword)

\* the words that make a header look like an article title
article_words == {<<"h","o","w">>, <<"w","h","y">>, <<"w","h","a","t">>, <<"t","h","e"," ","a","r","t">>, <<"a"," ","g","u","i","d","e">>}
\* the longest header text taken for a publication name is one shorter
HeaderTextLimit == 50
LooksLikeName(text) ==
    /\ Len(text) < HeaderTextLimit
    /\ ~\E word \in article_words : Contains(Lower(text), word)

generic_terms == {S_substack, <<"b","l","o","g">>, <<"n","e","w","s","l","e","t","t","e","r">>}

\* the first of a set of positions (0: the set is empty)
FirstPosition(at) == IF at = {} THEN 0 ELSE CHOOSE i \in at : \A j \in at : i <= j

\* Method 1: og:site_name
PubMethod1(pg) ==
    IF pg.og.some /\ pg.og.val # <<>> THEN Some(Strip(pg.og.val)) ELSE None

\* Method 2: the subdomain of the URL, if there is no publication yet
PubMethod2(u, publ) ==
    IF ~Falsy(publ) THEN publ
    ELSE LET hostname == UrlHostname(u)
         IN IF hostname # <<>> /\ EndsWith(hostname, S_dot_substack_com)
                               /\ hostname # S_substack_com
            THEN Some(TitleCase(ReplaceChar(ReplaceAll(hostname, S_dot_substack_com, <<>>),
                                            "-", " ")))
            ELSE publ

\* Method 3: the first branded header whose text looks like a name
PubMethod3(pg, publ) ==
    IF ~Falsy(publ) THEN publ
    ELSE LET IsCandidate(n) == HasBrandClass(n) /\ LooksLikeName(Strip(n.text))
             k == FirstPosition({i \in DOMAIN pg.nodes : IsCandidate(pg.nodes[i])})
         IN IF k = 0 THEN publ ELSE Some(Strip(pg.nodes[k].text))

\* Method 4: the last part of "<title>Article | Publication</title>"
PubMethod4(pg, publ) ==
    IF ~Falsy(publ) THEN publ
    ELSE IF pg.title_tag.some /\ Contains(pg.title_tag.val, S_pipe)
    THEN LET potential_pub == Strip(LastPart(pg.title_tag.val, S_pipe))
         IN IF Lower(potential_pub) \notin generic_terms THEN Some(potential_pub) ELSE publ
    ELSE publ

\* a publication resolution that tries the subdomain before og:site_name
get_publication_subdomain_first(u, pg) ==
    LET m2 == PubMethod2(u, None)
        m1 == IF ~Falsy(m2) THEN m2 ELSE PubMethod1(pg)
    IN PubMethod4(pg, PubMethod3(pg, m1))

\* the publication get_substack_content resolves for the page pg of URL u
get_publication(u, pg) ==
    PubMethod4(pg, PubMethod3(pg, PubMethod2(u, PubMethod1(pg))))

\* a title search that takes the first h1 wherever it is nested
TitleHeadingAnyH1(nodes) ==
    FirstPosition({i \in DOMAIN nodes : nodes[i].tag = "h1"})

\* position of the h1 the title loop stops at: the first h1 without a parent of
\* class pc-display-flex (0: none)
TitleHeading(nodes) ==
    FirstPosition({i \in DOMAIN nodes :
                      nodes[i].tag = "h1" /\ S_pc_display_flex \notin nodes[i].anc})

\* header lines with the publication line put before the author line
HeaderLinesPublicationFirst(h1, auth, publ) ==
    LET author_heading == Node("h4", <<>>, <<"B","y"," ">> \o auth, h1.anc, h1.in_article)
        publication_heading == Node("h5", <<>>, <<"F","r","o","m",":"," ">> \o publ.val, h1.anc, h1.in_article)
        horizontal_line == Node("hr", <<>>, <<>>, h1.anc, h1.in_article)
    IN IF ~Falsy(publ)
       THEN <<publication_heading, author_heading, horizontal_line>>
       ELSE <<author_heading, horizontal_line>>

\* the elements inserted after the title h1: the last insert_after lands first
HeaderLines(h1, auth, publ) ==
    LET author_heading == Node("h4", <<>>, <<"B","y"," ">> \o auth, h1.anc, h1.in_article)
        publication_heading == Node("h5", <<>>, <<"F","r","o","m",":"," ">> \o publ.val, h1.anc, h1.in_article)
        horizontal_line == Node("hr", <<>>, <<>>, h1.anc, h1.in_article)
    IN IF ~Falsy(publ)
       THEN <<author_heading, publication_heading, horizontal_line>>
       ELSE <<author_heading, horizontal_line>>

\* the selectors of article_content.select(...)
chrome_selectors == {S_pc_display_flex, S_button_wrapper, S_modal, S_popup}

\* a sanitizer that removes the matching element but leaves its subtree
DecomposedSelfOnly(n) ==
    n.in_article /\ n.cls \in chrome_selectors

\* the element is decomposed: it lies in the article and it, or an element it is
\* nested in, matches a selector (select looks below article_content only: for an
\* element of the article, anc holds the classes of the elements between the
\* article and it; the pages modelled nest no article in a classed element)
Decomposed(n) ==
    n.in_article /\ (n.cls \in chrome_selectors \/ n.anc \cap chrome_selectors # {})

\* str(article_content): the elements inside the article
ArticleContent(nodes) ==
    LET Inside(n) == n.in_article
    IN SelectSeq(nodes, Inside)

\* safe_title
IsSafeTitleChar(c) == IsAlnum(c) \/ c \in {" ", "-", "_"}
safe_title(t) == Prefix(ReplaceChar(SelectSeq(Lower(t), IsSafeTitleChar), " ", "-"), 70)

\* an error raised without the prefix of the handler that re-raises it
XErrorUnwrapped(prefix, cause) == [kind |-> "error", prefix |-> "", cause |-> cause]

\* raise Exception(f"{prefix}{cause}")
XError(prefix, cause) == [kind |-> "error", prefix |-> prefix, cause |-> cause]

ExtractInit ==
    /\ xpc = "start"
    /\ xurl \in ExtractUrls
    /\ page = NoPage
    /\ dom = <<>>
    /\ author = <<>>
    /\ publication = None
    /\ xtitle = None
    /\ snapshots = {}
    /\ xresult = NoResult

\* requests.get(url), raise_for_status() and the parse of the response
FetchPage ==
    /\ xpc = "start"
    /\ \/ \E pg \in Pages :
            /\ page' = pg
            /\ dom' = pg.nodes
            /\ xpc' = "fetched"
            /\ xresult' = xresult
       \/ \E cause \in {"ConnectionError", "HTTPError"} :
            /\ xresult' = XError("Error fetching content: ", cause)
            /\ xpc' = "raised"
            /\ UNCHANGED <<page, dom>>
    /\ UNCHANGED <<xurl, author, publication, xtitle, snapshots>>
    /\ UNCHANGED <<epubVars, classVars, genericVars, serviceVars>>

\* soup.find('article'), the author and the publication
ResolveMetadata ==
    /\ xpc = "fetched"
    /\ IF ~page.has_article
       THEN /\ xresult' = XError("Error processing content: ", "Could not find article content")
            /\ xpc' = "raised"
            /\ UNCHANGED <<author, publication>>
       ELSE IF AuthorRaises(page)
       THEN /\ xresult' = XError("Error processing content: ", "AttributeError")
            /\ xpc' = "raised"
            /\ UNCHANGED <<author, publication>>
       ELSE /\ author' = get_author(page)
            /\ publication' = get_publication(xurl, page)
            /\ xpc' = "meta"
            /\ xresult' = xresult
    /\ UNCHANGED <<xurl, page, dom, xtitle, snapshots>>
    /\ UNCHANGED <<epubVars, classVars, genericVars, serviceVars>>

\* the title loop, with the header lines it inserts, and the default title
ResolveTitle ==
    /\ xpc = "meta"
    /\ LET k == TitleHeading(dom)
           found == IF k = 0 THEN None ELSE Some(Strip(dom[k].text))
       IN /\ dom' = IF k = 0 THEN dom
                    ELSE SubSeq(dom, 1, k) \o HeaderLines(dom[k], author, publication)
                                           \o SubSeq(dom, k + 1, Len(dom))
          /\ xtitle' = IF Falsy(found) THEN Some(S_Unknown_Title) ELSE found
    /\ xpc' = "titled"
    /\ UNCHANGED <<xurl, page, author, publication, snapshots, xresult>>
    /\ UNCHANGED <<epubVars, classVars, genericVars, serviceVars>>

\* for element in article_content.select(...): element.decompose()
Sanitize ==
    /\ xpc = "titled"
    /\ LET Kept(n) == ~Decomposed(n)
       IN dom' = SelectSeq(dom, Kept)
    /\ xpc' = "sanitized"
    /\ UNCHANGED <<xurl, page, author, publication, xtitle, snapshots, xresult>>
    /\ UNCHANGED <<epubVars, classVars, genericVars, serviceVars>>

\* os.makedirs, the write of the snapshot, and the return of the Article; a failing
\* makedirs or write raises OSError inside the try
SnapshotAndReturn ==
    /\ xpc = "sanitized"
    /\ \/ /\ snapshots' = snapshots \cup {[name |-> safe_title(xtitle.val),
                                           content |-> ArticleContent(dom)]}
          /\ xresult' = [kind |-> "article", URL |-> xurl, Title |-> xtitle.val,
                         Author |-> author, Content |-> ArticleContent(dom),
                         Publication |-> publication]
          /\ xpc' = "returned"
       \/ /\ xresult' = XError("Error processing content: ", "OSError")
          /\ xpc' = "raised"
          /\ snapshots' = snapshots
    /\ UNCHANGED <<xurl, page, dom, author, publication, xtitle>>
    /\ UNCHANGED <<epubVars, classVars, genericVars, serviceVars>>

ExtractNext ==
    \/ FetchPage
    \/ ResolveMetadata
    \/ ResolveTitle
    \/ Sanitize
    \/ SnapshotAndReturn

-----------------------------------------------------------------------------
(* web_scraper.py: get_generic_content *)

\* readability's doc.title() for a document without a <title>
S_no_title == <<"[","n","o","-","t","i","t","l","e","]">>
\* a non-empty doc.summary()
S_summary == <<"<","h","t","m","l",">","<","b","o","d","y",">","<","d","i","v",">","<","p",">","T","e","x","t","<","/","p",">","<","/","d","i","v",">","<","/","b","o","d","y",">","<","/","h","t","m","l",">">>
S_Jane == <<"J","a","n","e">>

S_Error_extracting == <<"E","r","r","o","r"," ","e","x","t","r","a","c","t","i","n","g"," ","c","o","n","t","e","n","t",":"," ">>
S_extraction_failed == <<"S","o","r","r","y",","," ","c","o","n","t","e","n","t"," ","e","x","t","r","a","c","t","i","o","n"," ","f","a","i","l","e","d"," ","f","o","r"," ","t","h","i","s"," ","U","R","L">>
S_HTTP_Status_Code == <<"H","T","T","P"," ","S","t","a","t","u","s"," ","C","o","d","e",":"," ">>
S_ConnectionError == <<"C","o","n","n","e","c","t","i","o","n","E","r","r","o","r">>
S_OSError == <<"O","S","E","r","r","o","r">>
S_KeyError == <<"'","c","o","n","t","e","n","t","'">>

\* str(response.status_code)
StatusText(status) ==
    CASE status = 200 -> <<"2","0","0">>
      [] status = 404 -> <<"4","0","4">>
      [] OTHER -> <<"5","0","0">>

\* What requests.get gives get_generic_content and what the page holds:
\*   status       response.status_code
\*   summary      doc.summary()
\*   doc_title    doc.title(): the normalized <title> text, "[no-title]" without one
\*   meta_author, meta_published
\*                the <meta> tag: absent, bare (without a content attribute), set
GenericResponses ==
    [status : {200, 404}, summary : {<<>>, S_summary},
     doc_title : {S_no_title, T_MyPost, <<>>},
     meta_author : {"absent", "bare", "set"},
     meta_published : {"absent", "bare", "set"}]

NoGenericResponse ==
    [status |-> 0, summary |-> <<>>, doc_title |-> <<>>,
     meta_author |-> "absent", meta_published |-> "absent"]

GenericUrls == {CU_Plain, CU_Custom}

\* the text of an error: raise Exception(f"{prefix}{str(e)}")
Message(e) == e.prefix \o e.cause

GenericInit ==
    /\ gpc = "start"
    /\ gurl \in GenericUrls
    /\ gresp = NoGenericResponse
    /\ gsnapshots = {}
    /\ gresult = NoResult

\* a generic extraction that does not test the status code or the summary
GenericExtractUnchecked ==
    /\ gpc = "start"
    /\ \/ /\ gresult' = XError(S_Error_extracting, S_ConnectionError)
          /\ gpc' = "raised"
          /\ gresp' = gresp
       \/ \E r \in GenericResponses :
            /\ gresp' = r
            /\ gresult' = gresult
            /\ gpc' = "extracted"
    /\ UNCHANGED <<gurl, gsnapshots>>
    /\ UNCHANGED <<epubVars, classVars, extractVars, serviceVars>>

\* requests.get, the status test, doc.summary(), doc.title() and "if content"
GenericExtract ==
    /\ gpc = "start"
    /\ \/ /\ gresult' = XError(S_Error_extracting, S_ConnectionError)
          /\ gpc' = "raised"
          /\ gresp' = gresp
       \/ \E r \in GenericResponses :
            /\ gresp' = r
            /\ IF r.status # 200
               THEN /\ gresult' = XError(S_Error_extracting,
                                         S_HTTP_Status_Code \o StatusText(r.status))
                    /\ gpc' = "raised"
               ELSE IF r.summary = <<>>
               THEN /\ gresult' = XError(S_Error_extracting, S_extraction_failed)
                    /\ gpc' = "raised"
               ELSE /\ gresult' = gresult
                    /\ gpc' = "extracted"
    /\ UNCHANGED <<gurl, gsnapshots>>
    /\ UNCHANGED <<epubVars, classVars, extractVars, serviceVars>>

\* os.makedirs('./html') and the write of the snapshot; a failing makedirs or
\* write raises OSError inside the try
GenericSnapshot ==
    /\ gpc = "extracted"
    /\ \/ /\ gsnapshots' = gsnapshots \cup {[name |-> safe_title(gresp.doc_title),
                                             content |-> gresp.summary]}
          /\ gpc' = "saved"
          /\ gresult' = gresult
       \/ /\ gresult' = XError(S_Error_extracting, S_OSError)
          /\ gpc' = "raised"
          /\ gsnapshots' = gsnapshots
    /\ UNCHANGED <<gurl, gresp>>
    /\ UNCHANGED <<epubVars, classVars, extractVars, serviceVars>>

\* the metadata of the page and the return of the Article; author['content'] and
\* published['content'] raise KeyError on a tag without the attribute
GenericReturn ==
    /\ gpc = "saved"
    /\ IF gresp.meta_author = "bare" \/ gresp.meta_published = "bare"
       THEN /\ gresult' = XError(S_Error_extracting, S_KeyError)
            /\ gpc' = "raised"
       ELSE /\ gresult' = [kind |-> "article", URL |-> gurl, Title |-> gresp.doc_title,
                           Author |-> IF gresp.meta_author = "set" THEN S_Jane
                                      ELSE S_Unknown_Author,
                           Content |-> gresp.summary, Publication |-> None]
            /\ gpc' = "returned"
    /\ UNCHANGED <<gurl, gresp, gsnapshots>>
    /\ UNCHANGED <<epubVars, classVars, extractVars, serviceVars>>

GenericNext ==
    \/ GenericExtract
    \/ GenericSnapshot
    \/ GenericReturn

-----------------------------------------------------------------------------
(* disk_monitor.py: get_files_by_age, delete_file_safely, cleanup_old_files,  *)
(* delete_empty_directories, monitor_disk_space                              *)

\* most files under ./html and ./epubs when a janitor pass starts
MaxFiles == 3

\* DISK_SPACE_THRESHOLD = 2 * 1024 * 1024 * 1024 bytes, counted in units of
\* 512 MiB; file sizes and free space are counted in the same unit
DISK_SPACE_THRESHOLD == 4

\* directories are paths below the working directory
HTML_DIR == <<"html">>
EPUBS_DIR == <<"epubs">>

S_dot_html == <<".","h","t","m","l">>
S_dot_epub == <<".","e","p","u","b">>

\* a file: its directory, name, modification time and size, and whether
\* os.remove on it succeeds
File(dir, name, mtime, size, removable) ==
    [dir |-> dir, name |-> name, mtime |-> mtime, size |-> size, removable |-> removable]

\* the files a pass may find: snapshots, packages at several depths, two files
\* with the same modification time in each pool and across the pools, a package
\* that cannot be removed, a staged image and a snapshot kept under ./epubs
FileUniverse ==
    { File(<<"html">>,           <<"o","l","d",".","h","t","m","l">>, 1, 1, TRUE),
      File(<<"html">>,           <<"n","e","w",".","h","t","m","l">>, 3, 2, TRUE),
      File(<<"epubs","a">>,      <<"A",".","e","p","u","b">>,   2, 2, TRUE),
      File(<<"epubs","a","b">>,  <<"B",".","e","p","u","b">>,   1, 1, TRUE),
      File(<<"epubs","c">>,      <<"C",".","e","p","u","b">>,   2, 1, FALSE),
      File(<<"epubs","a">>,      <<"x",".","p","n","g">>,    1, 1, TRUE),
      File(<<"epubs","c">>,      <<"n",".","h","t","m","l">>,   1, 1, TRUE) }

\* directories that may exist without a file in them
OptionalDirs == {<<"html","g">>, <<"epubs","e">>, <<"epubs","e","f">>}

\* the directories on the path of d, d included (os.makedirs creates them all)
Ancestors(d) == {SubSeq(d, 1, k) : k \in 1..Len(d)}
PathClosure(D) == UNION {Ancestors(d) : d \in D}

\* d lies below top, at any depth
IsBelow(d, top) == Len(d) > Len(top) /\ SubSeq(d, 1, Len(top)) = top

\* the subdirectories os.scandir(top) lists
Children(top, dirs) == {d \in dirs : Len(d) = Len(top) + 1 /\ IsBelow(d, top)}

\* os.listdir(d): the files and the subdirectories in d
ListDir(d, dirs, files) == {f \in files : f.dir = d} \cup Children(d, dirs)

\* glob.glob(os.path.join(directory, '**', pattern), recursive=True) filtered by
\* os.path.isfile, for the patterns '*.html' and '*.epub': the files in directory
\* and below it whose name ends with the suffix and does not begin with a dot
Glob(directory, suffix, files) ==
    {f \in files : /\ f.dir = directory \/ IsBelow(f.dir, directory)
                   /\ EndsWith(f.name, suffix)
                   /\ Head(f.name) # "."}

\* the orders in which glob may list a set of files
Perms(S) ==
    {s \in [1..Cardinality(S) -> S] : \A i, j \in 1..Cardinality(S) : i # j => s[i] # s[j]}

\* list.sort(key=lambda x: x[1]): a stable sort by modification time, computed
\* by inserting each element behind the elements that are not newer
RECURSIVE InsertByMtime(_, _)
InsertByMtime(s, f) ==
    IF s = <<>> THEN <<f>>
    ELSE IF Head(s).mtime <= f.mtime THEN <<Head(s)>> \o InsertByMtime(Tail(s), f)
    ELSE <<f>> \o s

\* a sort that leaves the list as it is
KeepOrder(s) == s

RECURSIVE SortByMtime(_)
SortByMtime(s) ==
    IF s = <<>> THEN <<>>
    ELSE InsertByMtime(SortByMtime(SubSeq(s, 1, Len(s) - 1)), s[Len(s)])

\* get_files_by_age(directory, pattern): the lists it may return
get_files_by_age(directory, suffix, files) ==
    {SortByMtime(o) : o \in Perms(Glob(directory, suffix, files))}

\* os.walk(top, topdown=False): a directory is yielded after the directories
\* below it; siblings in the order scandir lists them, which the model fixes
SetToSeq(S) == CHOOSE s \in Perms(S) : TRUE

RECURSIVE WalkEach(_, _)
RECURSIVE WalkBottomUp(_, _)
WalkEach(tops, dirs) ==
    IF tops = <<>> THEN <<>>
    ELSE WalkBottomUp(Head(tops), dirs) \o WalkEach(Tail(tops), dirs)

WalkBottomUp(top, dirs) == WalkEach(SetToSeq(Children(top, dirs)), dirs) \o <<top>>

\* a walk that yields a directory before the directories below it
WalkTopDown(top, dirs) ==
    [i \in 1..Len(WalkBottomUp(top, dirs)) |->
        WalkBottomUp(top, dirs)[Len(WalkBottomUp(top, dirs)) + 1 - i]]

\* the directories delete_empty_directories(top) visits, in order
WalkOrder(top, dirs) == WalkBottomUp(top, dirs)

\* cleanup_old_files has not returned
NoReturn == -1

JanitorInit ==
    /\ jpc = "idle"
    /\ jfiles \in {F \in SUBSET FileUniverse : Cardinality(F) <= MaxFiles}
    /\ \E extra \in SUBSET OptionalDirs :
          jdirs = PathClosure({HTML_DIR, EPUBS_DIR} \cup {f.dir : f \in jfiles} \cup extra)
    /\ free_space \in 0..(DISK_SPACE_THRESHOLD + 1)
    /\ all_files = <<>>
    /\ space_freed = 0
    /\ attempts = <<>>
    /\ walk = <<>>
    /\ jret = NoReturn

\* cleanup_old_files(free_space) up to its for loop
StartCleanup ==
    /\ \E html_files \in get_files_by_age(HTML_DIR, S_dot_html, jfiles),
          epub_files \in get_files_by_age(EPUBS_DIR, S_dot_epub, jfiles) :
          all_files' = SortByMtime(html_files \o epub_files)
    /\ space_freed' = 0
    /\ jpc' = "deleting"
    /\ UNCHANGED <<jfiles, jdirs, free_space, attempts, walk, jret>>

\* monitor_disk_space: one round of its loop
MonitorDiskSpace ==
    /\ jpc = "idle"
    /\ IF free_space < DISK_SPACE_THRESHOLD
       THEN StartCleanup
       ELSE jpc' = "sleeping" /\ UNCHANGED <<jfiles, jdirs, free_space, all_files,
                                              space_freed, attempts, walk, jret>>
    /\ UNCHANGED <<pipelineVars, deliveryVars, botVars, raceVars>>

\* cleanup_old_files(free_space) called with any value, as the tests call it
CleanupOldFiles ==
    /\ jpc = "idle"
    /\ StartCleanup
    /\ UNCHANGED <<pipelineVars, deliveryVars, botVars, raceVars>>

\* one round of "for filepath, mtime in all_files": the break, or
\* os.path.getsize and delete_file_safely for the next file; after the loop,
\* delete_empty_directories(HTML_DIR) begins
DeleteNextFile ==
    /\ jpc = "deleting"
    /\ IF all_files = <<>> \/ space_freed >= DISK_SPACE_THRESHOLD - free_space
       THEN /\ jpc' = "walk_html"
            /\ walk' = WalkOrder(HTML_DIR, jdirs)
            /\ UNCHANGED <<jfiles, all_files, space_freed, attempts>>
       ELSE LET f == Head(all_files)
                deleted == f \in jfiles /\ f.removable
            IN /\ all_files' = Tail(all_files)
               /\ attempts' = Append(attempts, [file |-> f, deleted |-> deleted])
               /\ jfiles' = IF deleted THEN jfiles \ {f} ELSE jfiles
               /\ space_freed' = IF deleted THEN space_freed + f.size ELSE space_freed
               /\ UNCHANGED <<jpc, walk>>
    /\ UNCHANGED <<jdirs, free_space, jret>>
    /\ UNCHANGED <<pipelineVars, deliveryVars, botVars, raceVars>>

\* one round of "for root, dirs, files in os.walk(directory, topdown=False)":
\* every subdirectory of root that os.listdir finds empty is removed
VisitDirectory ==
    /\ jpc \in {"walk_html", "walk_epubs"}
    /\ walk # <<>>
    /\ jdirs' = jdirs \ {d \in Children(Head(walk), jdirs) : ListDir(d, jdirs, jfiles) = {}}
    /\ walk' = Tail(walk)
    /\ UNCHANGED <<jpc, jfiles, free_space, all_files, space_freed, attempts, jret>>
    /\ UNCHANGED <<pipelineVars, deliveryVars, botVars, raceVars>>

\* the end of delete_empty_directories(HTML_DIR): delete_empty_directories(EPUBS_DIR)
WalkEpubs ==
    /\ jpc = "walk_html"
    /\ walk = <<>>
    /\ jpc' = "walk_epubs"
    /\ walk' = WalkOrder(EPUBS_DIR, jdirs)
    /\ UNCHANGED <<jfiles, jdirs, free_space, all_files, space_freed, attempts, jret>>
    /\ UNCHANGED <<pipelineVars, deliveryVars, botVars, raceVars>>

\* return space_freed
ReturnFreed ==
    /\ jpc = "walk_epubs"
    /\ walk = <<>>
    /\ jpc' = "returned"
    /\ jret' = space_freed
    /\ UNCHANGED <<jfiles, jdirs, free_space, all_files, space_freed, attempts, walk>>
    /\ UNCHANGED <<pipelineVars, deliveryVars, botVars, raceVars>>

JanitorNext ==
    \/ MonitorDiskSpace
    \/ CleanupOldFiles
    \/ DeleteNextFile
    \/ VisitDirectory
    \/ WalkEpubs
    \/ ReturnFreed

\* the package of the request under way: convert_to_epub writes it below ./epubs
\* with the current time as its modification time, later than that of the
\* files already there
PackageFile == File(<<"epubs", "my-post">>, <<"M","y"," ","P","o","s","t",".","e","p","u","b">>, 4, 1, TRUE)

\* telegram_bot.py process_link: convert_to_epub(...) returns the path of the
\* package it wrote
ConvertReturns ==
    /\ dpc = "converting"
    /\ dpc' = "converted"
    /\ jfiles' = jfiles \cup {PackageFile}
    /\ jdirs' = jdirs \cup Ancestors(PackageFile.dir)
    /\ UNCHANGED <<jpc, free_space, all_files, space_freed, attempts, walk, jret>>
    /\ UNCHANGED <<pipelineVars, botVars, raceVars>>

\* email_sender.py send_email: open(attachment_path, 'rb'), which raises
\* FileNotFoundError when the file is gone
SendEmailOpen ==
    /\ dpc = "converted"
    /\ dpc' = IF PackageFile \in jfiles THEN "opened" ELSE "failed"
    /\ UNCHANGED janitorVars
    /\ UNCHANGED <<pipelineVars, botVars, raceVars>>

\* a request and the janitor process, running side by side
DeliveryNext ==
    \/ JanitorNext
    \/ ConvertReturns
    \/ SendEmailOpen

-----------------------------------------------------------------------------
(* telegram_bot.py: is_url, process_email, process_link; cli.py: main *)

S_at_kindle_com == <<"@","k","i","n","d","l","e",".","c","o","m">>
S_ftp == <<"f","t","p">>
T_Address == <<"m","e","@","k","i","n","d","l","e",".","c","o","m">>
T_Hello == <<"h","e","l","l","o">>

\* the texts a user may send: an address, a URL, and a text that is neither
Texts == {T_Address, CU_Custom, T_Hello}

\* validators.url(text): a scheme of the web, a host, no white space
validators_url(text) ==
    /\ UrlScheme(text) \in {S_http, S_https, S_ftp}
    /\ HasNetloc(text)
    /\ UrlNetloc(text) # <<>>
    /\ \A i \in DOMAIN text : ~IsSpace(text[i])

\* async def is_url: the value the coroutine gives when it is awaited
is_url(text) == validators_url(text)

\* the value of a call of an async function: a coroutine object
Coroutine(v) == [kind |-> "coroutine", returns |-> v]

\* bool(x): a coroutine object defines neither __bool__ nor __len__, so it is true
Truthy(x) == IF x.kind = "coroutine" THEN TRUE ELSE x.returns

\* what the collaborators of one request would give it: the extractor an
\* Article or an exception, convert_to_epub(article) a path or an exception,
\* send_email a delivery or an exception
Environments == [content : {"article", "raise"}, convert : {"path", "raise"},
                 send : {"ok", "raise"}]
NoEnvironment == [content |-> "raise", convert |-> "raise", send |-> "raise"]

\* the stages of a request, as process_link and main run them
StageOrder == <<"classify", "extract", "assemble", "deliver", "report">>

BotInit ==
    /\ conv \in {"EMAIL", "END"}
    /\ kindle_email \in {None, Some(T_Address)}
    /\ replies = <<>>
    /\ bpc = "idle"
    /\ requester = "none"
    /\ origin = "none"
    /\ burl = <<>>
    /\ env \in Environments
    /\ ebook = NoResult
    /\ sent = {}
    /\ articles = {}
    /\ stages = <<>>

\* the beginning of a request for the text t
Begin(r, o, t) ==
    /\ bpc' = "started"
    /\ requester' = r
    /\ origin' = o
    /\ burl' = t
    /\ UNCHANGED <<conv, kindle_email, replies, env, ebook, sent, articles, stages>>

\* process_email(update, context): the handler of the EMAIL state. The test
\* "if is_url(update, context)" calls the async function without await.
ProcessEmail ==
    /\ conv = "EMAIL"
    /\ bpc = "idle"
    /\ \E text \in Texts :
          IF ~EndsWith(text, S_at_kindle_com)
          THEN IF Truthy(Coroutine(is_url(text)))
               THEN Begin("bot", "email", text)
               ELSE /\ replies' = Append(replies, "ask_address")
                    /\ UNCHANGED <<conv, kindle_email, bpc, requester, origin, burl, env,
                                   ebook, sent, articles, stages>>
          ELSE /\ kindle_email' = Some(text)
               /\ replies' = Append(replies, "thanks")
               /\ conv' = "END"
               /\ UNCHANGED <<bpc, requester, origin, burl, env, ebook, sent, articles,
                              stages>>
    /\ UNCHANGED <<pipelineVars, janitorVars, deliveryVars, raceVars>>

\* process_link(update, context) as the handler of a text message outside the
\* conversation
ProcessLinkMessage ==
    /\ conv = "END"
    /\ bpc = "idle"
    /\ \E text \in Texts : Begin("bot", "message", text)
    /\ UNCHANGED <<pipelineVars, janitorVars, deliveryVars, raceVars>>

\* cli.py main(url, preserve_image_links)
CliRun ==
    /\ bpc = "idle"
    /\ \E text \in Texts : Begin("cli", "cli", text)
    /\ UNCHANGED <<pipelineVars, janitorVars, deliveryVars, raceVars>>

\* "except Exception": process_link replies with its apology and returns
\* ConversationHandler.END; main echoes the error and raises it again
RequestFails ==
    /\ bpc' = "ended"
    /\ replies' = Append(replies, IF requester = "bot" THEN "sorry" ELSE "error")
    /\ conv' = IF origin = "email" THEN "END" ELSE conv
    /\ UNCHANGED <<ebook, sent, articles, stages>>

\* the stage at position bpc returned without error
StageDone(next, name) ==
    /\ bpc' = next
    /\ stages' = Append(stages, name)

\* what the call of convert_to_epub gives the request
ConvertCall ==
    IF CallArgs(requester) > ConvertArity THEN TypeError
    ELSE IF env.convert = "path" THEN epub_path(T_MyPost)
    ELSE [kind |-> "error", type |-> "Exception"]

\* the next stage of process_link or main
RequestStep ==
    /\ bpc \in {"started", "classified", "extracted", "looked_up", "assembled",
                "delivered", "recorded"}
    /\ CASE bpc = "started" ->
              \* get_website_content: is_substack_site(url)
              /\ StageDone("classified", "classify")
              /\ UNCHANGED <<conv, replies, ebook, sent, articles>>
         [] bpc = "classified" ->
              \* get_website_content: the extractor
              IF env.content = "article"
              THEN /\ StageDone("extracted", "extract")
                   /\ UNCHANGED <<conv, replies, ebook, sent, articles>>
              ELSE RequestFails
         [] bpc = "extracted" ->
              \* process_link: the user row and its kindle_email; main has none
              IF requester = "bot" /\ ~kindle_email.some
              THEN RequestFails
              ELSE /\ bpc' = "looked_up"
                   /\ UNCHANGED <<conv, replies, ebook, sent, articles, stages>>
         [] bpc = "looked_up" ->
              \* ebook = convert_to_epub(content, ...)
              IF ConvertCall.kind = "path"
              THEN /\ StageDone("assembled", "assemble")
                   /\ ebook' = ConvertCall
                   /\ UNCHANGED <<conv, replies, sent, articles>>
              ELSE RequestFails
         [] bpc = "assembled" ->
              \* send_email(kindle_email, ebook)
              IF env.send = "ok"
              THEN /\ StageDone("delivered", "deliver")
                   /\ sent' = sent \cup {[package |-> ebook]}
                   /\ UNCHANGED <<conv, replies, ebook, articles>>
              ELSE RequestFails
         [] bpc = "delivered" ->
              \* process_link: the Article row; main stores nothing
              /\ bpc' = "recorded"
              /\ articles' = IF requester = "bot"
                             THEN articles \cup {[article_url |-> burl, epub_path |-> ebook]}
                             ELSE articles
              /\ UNCHANGED <<conv, replies, ebook, sent, stages>>
         [] bpc = "recorded" ->
              \* 'Article has been sent to your Kindle!'
              /\ bpc' = "ended"
              /\ stages' = Append(stages, "report")
              /\ replies' = Append(replies, "sent")
              /\ conv' = IF origin = "email" THEN "END" ELSE conv
              /\ UNCHANGED <<ebook, sent, articles>>
    /\ UNCHANGED <<kindle_email, requester, origin, burl, env>>
    /\ UNCHANGED <<pipelineVars, janitorVars, deliveryVars, raceVars>>

BotNext ==
    \/ ProcessEmail
    \/ ProcessLinkMessage
    \/ CliRun
    \/ RequestStep

-----------------------------------------------------------------------------

(* epub_converter.py: two runs of convert_to_epub that share ./epubs *)

Runs == {1, 2}

\* titles: two that give the same directory and different package files, and
\* one that gives another directory
T_my_post == <<"m","y"," ","p","o","s","t">>
T_Other == <<"O","t","h","e","r">>
RaceTitles == {T_MyPost, T_my_post, T_Other}

\* the image each article has: none, or one that is staged under the name
NoImage == <<>>
RaceImages == {NoImage, <<"x",".","p","n","g">>, <<"y",".","p","n","g">>}

\* one directory for every conversion
ArticleDirShared(t) == <<>>

\* article_dir = os.path.join('./epubs', safe_dirname)
article_dir(t) == safe_dirname(t)

\* epub_path = os.path.join(article_dir, f"{title}.epub")
PackagePath(t) == [kind |-> "path", dir |-> article_dir(t), file |-> t \o S_epub]

\* a staged image file and the run that wrote it
Staged(dir, name, writer) == [dir |-> dir, name |-> name, writer |-> writer]

\* the number of image items in the package run w wrote
PackageImageCount(w) == IF rimg[w] = NoImage THEN 0 ELSE 1

RaceInit ==
    /\ rpc = [r \in Runs |-> "idle"]
    /\ rtitle \in [Runs -> RaceTitles]
    /\ rimg \in [Runs -> RaceImages]
    /\ fs_pkg = [p \in {PackagePath(t) : t \in RaceTitles} |-> 0]
    /\ fs_staged = {}
    /\ readback = [r \in Runs |-> 0]
    /\ removed = [r \in Runs |-> {}]
    /\ rresult = [r \in Runs |-> NoResult]

\* convert_to_epub up to process_images: os.makedirs of ./epubs and article_dir
RunStart(r) ==
    /\ rpc[r] = "idle"
    /\ rpc' = [rpc EXCEPT ![r] = "images"]
    /\ UNCHANGED <<rtitle, rimg, fs_pkg, fs_staged, readback, removed, rresult>>
    /\ UNCHANGED <<pipelineVars, janitorVars, deliveryVars, botVars>>

\* process_images: download_image opens article_dir/image_name with 'wb', which
\* replaces a file of that name
RunProcessImages(r) ==
    /\ rpc[r] = "images"
    /\ rpc' = [rpc EXCEPT ![r] = "assembled"]
    /\ fs_staged' =
          IF rimg[r] = NoImage THEN fs_staged
          ELSE {f \in fs_staged : ~(f.dir = article_dir(rtitle[r]) /\ f.name = rimg[r])}
               \cup {Staged(article_dir(rtitle[r]), rimg[r], r)}
    /\ UNCHANGED <<rtitle, rimg, fs_pkg, readback, removed, rresult>>
    /\ UNCHANGED <<pipelineVars, janitorVars, deliveryVars, botVars>>

\* epub.write_epub(epub_path, book)
RunWrite(r) ==
    /\ rpc[r] = "assembled"
    /\ rpc' = [rpc EXCEPT ![r] = "written"]
    /\ fs_pkg' = [fs_pkg EXCEPT ![PackagePath(rtitle[r])] = r]
    /\ UNCHANGED <<rtitle, rimg, fs_staged, readback, removed, rresult>>
    /\ UNCHANGED <<pipelineVars, janitorVars, deliveryVars, botVars>>

\* a cleanup that removes only the files its own run staged
RunVerifyOwnFiles(r) ==
    LET w == fs_pkg[PackagePath(rtitle[r])]
        gone == IF PackageImageCount(w) > 0
                THEN {f \in fs_staged : /\ f.dir = article_dir(rtitle[r])
                                        /\ HasImageExt(f.name)
                                        /\ f.writer = r}
                ELSE {}
    IN /\ rpc[r] = "written"
       /\ rpc' = [rpc EXCEPT ![r] = "done"]
       /\ readback' = [readback EXCEPT ![r] = w]
       /\ fs_staged' = fs_staged \ gone
       /\ removed' = [removed EXCEPT ![r] = gone]
       /\ rresult' = [rresult EXCEPT ![r] = PackagePath(rtitle[r])]
       /\ UNCHANGED <<rtitle, rimg, fs_pkg>>
       /\ UNCHANGED <<pipelineVars, janitorVars, deliveryVars, botVars>>

\* epub.read_epub(epub_path), the cleanup of article_dir when it holds an image
\* item, and "return epub_path"
RunVerify(r) ==
    LET w == fs_pkg[PackagePath(rtitle[r])]
        gone == IF PackageImageCount(w) > 0
                THEN {f \in fs_staged : /\ f.dir = article_dir(rtitle[r])
                                        /\ HasImageExt(f.name)}
                ELSE {}
    IN /\ rpc[r] = "written"
       /\ rpc' = [rpc EXCEPT ![r] = "done"]
       /\ readback' = [readback EXCEPT ![r] = w]
       /\ fs_staged' = fs_staged \ gone
       /\ removed' = [removed EXCEPT ![r] = gone]
       /\ rresult' = [rresult EXCEPT ![r] = PackagePath(rtitle[r])]
       /\ UNCHANGED <<rtitle, rimg, fs_pkg>>
       /\ UNCHANGED <<pipelineVars, janitorVars, deliveryVars, botVars>>

RaceNext ==
    \E r \in Runs :
        \/ RunStart(r)
        \/ RunProcessImages(r)
        \/ RunWrite(r)
        \/ RunVerify(r)

-----------------------------------------------------------------------------

(* The specifications: one per component, the other components at rest *)

EpubOff ==
    /\ epc = "off" /\ caller = "none" /\ preserve = FALSE /\ title = <<>>
    /\ imgs = <<>> /\ srcs = <<>> /\ idx = 0 /\ fetched = <<>> /\ items = <<>>
    /\ staged = {} /\ package = "none" /\ verify = "none"
    /\ processed_count = 0 /\ failed_count = 0 /\ result = NoResult

ClassOff ==
    /\ cpc = "off" /\ urlIn = <<>> /\ probe = ProbeExc /\ cres = NoRet
    /\ extractor = "none"

ExtractOff ==
    /\ xpc = "off" /\ xurl = <<>> /\ page = NoPage /\ dom = <<>> /\ author = <<>>
    /\ publication = None /\ xtitle = None /\ snapshots = {} /\ xresult = NoResult

GenericOff ==
    /\ gpc = "off" /\ gurl = <<>> /\ gresp = NoGenericResponse /\ gsnapshots = {}
    /\ gresult = NoResult

JanitorOff ==
    /\ jpc = "off" /\ jfiles = {} /\ jdirs = {} /\ free_space = 0 /\ all_files = <<>>
    /\ space_freed = 0 /\ attempts = <<>> /\ walk = <<>> /\ jret = NoReturn

DeliveryOff == dpc = "off"

BotOff ==
    /\ conv = "off" /\ kindle_email = None /\ replies = <<>> /\ bpc = "off"
    /\ requester = "none" /\ origin = "none" /\ burl = <<>> /\ env = NoEnvironment
    /\ ebook = NoResult /\ sent = {} /\ articles = {} /\ stages = <<>>

RaceOff ==
    /\ rpc = <<>> /\ rtitle = <<>> /\ rimg = <<>> /\ fs_pkg = <<>> /\ fs_staged = {}
    /\ readback = <<>> /\ removed = <<>> /\ rresult = <<>>

ServiceOff == JanitorOff /\ DeliveryOff /\ BotOff /\ RaceOff

\* a janitor pass on its own
PipelineOff == EpubOff /\ ClassOff /\ ExtractOff /\ GenericOff

JanitorStart == JanitorInit /\ DeliveryOff /\ BotOff /\ RaceOff /\ PipelineOff
SpecJanitor == JanitorStart /\ [][JanitorNext]_vars

\* a request being delivered while the janitor process runs
DeliveryStart == JanitorInit /\ dpc = "converting" /\ BotOff /\ RaceOff /\ PipelineOff
SpecDelivery == DeliveryStart /\ [][DeliveryNext]_vars

\* the bot's conversation and one request of the bot or the cli
BotStart == BotInit /\ JanitorOff /\ DeliveryOff /\ RaceOff /\ PipelineOff
SpecBot == BotStart /\ [][BotNext]_vars

\* two conversions side by side
RaceStart == RaceInit /\ JanitorOff /\ DeliveryOff /\ BotOff /\ PipelineOff
SpecRace == RaceStart /\ [][RaceNext]_vars

EpubStart == EpubInit /\ ClassOff /\ ExtractOff /\ GenericOff /\ ServiceOff
SpecEpub == EpubStart /\ [][EpubNext]_vars

ClassStart == ClassInit /\ EpubOff /\ ExtractOff /\ GenericOff /\ ServiceOff
SpecClassify == ClassStart /\ [][ClassNext]_vars

ExtractStart == ExtractInit /\ EpubOff /\ ClassOff /\ GenericOff /\ ServiceOff
SpecExtract == ExtractStart /\ [][ExtractNext]_vars

\* either extractor, as get_website_content calls one of them
GenericStart == GenericInit /\ EpubOff /\ ClassOff /\ ExtractOff /\ ServiceOff
ScraperNext == ExtractNext \/ GenericNext
SpecScraper == (ExtractStart \/ GenericStart) /\ [][ScraperNext]_vars

-----------------------------------------------------------------------------
(* Claims about the classifier, checked under SpecClassify *)

Classified == cpc \in {"classified", "dispatched", "raised"}

\* the URL's host contains the platform's root domain
HostContainsRoot(u) == Contains(UrlHostname(u), S_substack_com)

\* the URL's path carries the /p/ marker
HasPathMarker(u) == Contains(Lower(UrlPath(u)), S_p_)

\* the page text carries one of the indicator substrings
HasIndicator(text) == \E indicator \in substack_indicators : Contains(Lower(text), indicator)

\* the hostname is on the .gov/.edu denylist
Denylisted(u) == EndsWith(UrlHostname(u), S_gov) \/ EndsWith(UrlHostname(u), S_edu)

\* C7: every URL whose host contains substack.com is classified structured
\* whatever a probe of the page would give, without probing, and
\* get_website_content dispatches it to the structured extractor.
C7_RootDomainIsStructured ==
    (Classified /\ HostContainsRoot(urlIn)) =>
        /\ cres = Ret(TRUE, FALSE)
        /\ cpc # "raised"
        /\ cpc = "dispatched" => extractor = "substack"

\* a root-domain URL in upper case, whose probe would have failed, dispatched
C7_Witness ==
    /\ cpc = "dispatched"
    /\ HostContainsRoot(urlIn)
    /\ ~Contains(urlIn, S_substack_com)
    /\ extractor = "substack"

\* C8: for a URL with a host that does not contain the root domain the result is
\* that of the decision order: marker and HTTP 200 probe: structured iff the page
\* has an indicator; marker and failed probe: structured iff the host is not
\* denylisted; no marker: generic, and no probe is sent.
C8_DecisionOrder ==
    (Classified /\ ~UrlParseRaises(urlIn) /\ UrlHostname(urlIn) # <<>>
                /\ ~HostContainsRoot(urlIn)) =>
        /\ (HasPathMarker(urlIn) /\ probe.kind = "resp" /\ probe.status = 200)
              => cres = Ret(HasIndicator(probe.text), TRUE)
        /\ (HasPathMarker(urlIn) /\ probe.kind = "exc")
              => cres = Ret(~Denylisted(urlIn), TRUE)
        /\ ~HasPathMarker(urlIn) => cres = Ret(FALSE, FALSE)

\* C9: the classifier never raises: for every URL string and every probe outcome
\* it returns a boolean to its caller.
C9_NeverRaises ==
    Classified => (cres.ret \in {"True", "False"} /\ cpc # "raised")

-----------------------------------------------------------------------------
(* Claims about get_substack_content, checked under SpecExtract *)

\* the publication has been resolved
PublicationResolved == xpc \in {"meta", "titled", "sanitized", "returned"}

\* the value each publication source yields for a page (<<>>: none)
OgValue(pg) == IF pg.og.some THEN Strip(pg.og.val) ELSE <<>>
SubdomainValue(u) ==
    LET host == UrlHostname(u)
        n == Len(host) - Len(S_dot_substack_com)
    IN IF n > 0 /\ SubSeq(host, n + 1, Len(host)) = S_dot_substack_com
       THEN TitleCase(ReplaceChar(SubSeq(host, 1, n), "-", " "))
       ELSE <<>>
HeadingValue(pg) ==
    LET at == {i \in DOMAIN pg.nodes :
                  /\ HasBrandClass(pg.nodes[i])
                  /\ LooksLikeName(Strip(pg.nodes[i].text))}
    IN IF at = {} THEN <<>>
       ELSE Strip(pg.nodes[CHOOSE i \in at : \A j \in at : i <= j].text)
TitleTagValue(pg) ==
    IF pg.title_tag.some /\ Contains(pg.title_tag.val, S_pipe)
       /\ Lower(Strip(LastPart(pg.title_tag.val, S_pipe))) \notin generic_terms
    THEN Strip(LastPart(pg.title_tag.val, S_pipe))
    ELSE <<>>

\* the sources in their order of preference
PublicationSources(u, pg) ==
    <<OgValue(pg), SubdomainValue(u), HeadingValue(pg), TitleTagValue(pg)>>

\* C6: the publication is the value of the first of og:site_name, subdomain,
\* heading heuristic, <title> parse that yields a non-empty value: og:site_name
\* wins over a conflicting subdomain, and without og:site_name the host
\* testpub.substack.com gives "Testpub" whatever headings and <title> offer.
C6_PublicationPreference ==
    PublicationResolved =>
        LET sources == PublicationSources(xurl, page)
            yielding == {i \in DOMAIN sources : sources[i] # <<>>}
        IN /\ yielding # {} =>
                publication = Some(sources[CHOOSE i \in yielding : \A j \in yielding : i <= j])
           /\ yielding = {} => Falsy(publication)
           /\ page.og = Some(<<" ","W","i","n","-","W","i","n"," ">>) => publication = Some(<<"W","i","n","-","W","i","n">>)
           /\ (page.og = None /\ xurl = X_Testpub) => publication = Some(<<"T","e","s","t","p","u","b">>)
           /\ xpc = "returned" => xresult.Publication = publication

\* an Article returned for testpub.substack.com without og:site_name, though a
\* branded heading and the <title> offer other names
C6_Witness ==
    /\ xpc = "returned"
    /\ xurl = X_Testpub
    /\ page.og = None
    /\ page.title_tag = Some(<<"T"," ","|"," ","P","u","b">>)
    /\ \E i \in DOMAIN page.nodes : page.nodes[i] = HBrand
    /\ xresult.Publication = Some(<<"T","e","s","t","p","u","b">>)

\* position in the fetched page of the first h1 not nested in the chrome wrapper
FirstFreeH1(pg) ==
    LET at == {i \in DOMAIN pg.nodes :
                  pg.nodes[i].tag = "h1" /\ S_pc_display_flex \notin pg.nodes[i].anc}
    IN IF at = {} THEN 0 ELSE CHOOSE i \in at : \A j \in at : i <= j

\* C10 as stated: the title is the text of the first h1 not nested in the chrome
\* wrapper, and "Unknown Title" when the page has no such h1.
C10_TitleAsStated ==
    (xpc = "returned") =>
        LET k == FirstFreeH1(page)
        IN /\ k # 0 => xresult.Title = Strip(page.nodes[k].text)
           /\ k = 0 => xresult.Title = S_Unknown_Title

\* C10 as amended: the title is the stripped text of the first h1 not nested in
\* the chrome wrapper when that text is not empty, and "Unknown Title" otherwise
\* (no h1 outside the chrome wrapper, or the first such h1 has no text).
C10_TitleAmended ==
    (xpc = "returned") =>
        LET k == FirstFreeH1(page)
        IN xresult.Title =
              IF k # 0 /\ Strip(page.nodes[k].text) # <<>>
              THEN Strip(page.nodes[k].text)
              ELSE S_Unknown_Title

\* an Article whose title comes from the h1 that follows an h1 inside the wrapper
C10_Witness ==
    /\ xpc = "returned"
    /\ page.nodes = <<HChrome, HPlain>>
    /\ xresult.Title = <<"M","y"," ","P","o","s","t">>

-----------------------------------------------------------------------------
(* Claims about both extractors, checked under SpecScraper *)

\* the page gives get_substack_content no usable title text: no h1 outside a
\* pc-display-flex wrapper, or a first such h1 whose text is blank
NoUsableHeading ==
    LET k == TitleHeading(page.nodes)
    IN k = 0 \/ Strip(page.nodes[k].text) = <<>>

\* readability gave get_generic_content no usable title text
NoUsableDocTitle == gresp.doc_title \in {<<>>, S_no_title}

\* C11: every Article either extractor returns has a non-empty Title, and the
\* Title is "Unknown Title" whenever no usable title text is available.
C11_TitleNeverEmpty ==
    /\ xpc = "returned" =>
          /\ xresult.Title # <<>>
          /\ NoUsableHeading => xresult.Title = S_Unknown_Title
    /\ gpc = "returned" =>
          /\ gresult.Title # <<>>
          /\ NoUsableDocTitle => gresult.Title = S_Unknown_Title

\* C12: the Publication of every returned Article is absent or a non-empty text,
\* never the empty text: the generic extractor returns it absent, and the
\* structured extractor returns it absent whenever none of its four sources
\* yields a non-empty value.
C12_PublicationNeverEmpty ==
    /\ xpc = "returned" =>
          /\ xresult.Publication = None \/ xresult.Publication.val # <<>>
          /\ (\A i \in 1..4 : PublicationSources(xurl, page)[i] = <<>>) =>
                xresult.Publication = None
    /\ gpc = "returned" => gresult.Publication = None

-----------------------------------------------------------------------------
(* Claims about get_substack_content, checked under SpecExtract (continued) *)

\* the title loop has just run and found a title heading
TitleInserted == xpc = "titled" /\ TitleHeading(page.nodes) # 0

\* tag and text of the elements of dom at positions from..to
TagsAndTexts(from, to) ==
    [i \in 1..(to - from + 1) |-> <<dom[from + i - 1].tag, dom[from + i - 1].text>>]

AuthorLine == <<"h4", <<"B","y"," ">> \o author>>
PublicationLine == <<"h5", <<"F","r","o","m",":"," ">> \o publication.val>>
Separator == <<"hr", <<>>>>

\* the elements of the page before and after the title heading are where they were
PageAround(k, inserted) ==
    /\ Len(dom) = Len(page.nodes) + inserted
    /\ SubSeq(dom, 1, k) = SubSeq(page.nodes, 1, k)
    /\ SubSeq(dom, k + inserted + 1, Len(dom)) = SubSeq(page.nodes, k + 1, Len(page.nodes))

\* C13 as stated: right after the title come the publication line, the author
\* line and the separator, in this order; without a publication the author line
\* and the separator.
C13_HeaderOrderAsStated ==
    TitleInserted =>
        LET k == TitleHeading(page.nodes)
        IN IF ~Falsy(publication)
           THEN /\ PageAround(k, 3)
                /\ TagsAndTexts(k + 1, k + 3) = <<PublicationLine, AuthorLine, Separator>>
           ELSE /\ PageAround(k, 2)
                /\ TagsAndTexts(k + 1, k + 2) = <<AuthorLine, Separator>>

\* C13 as amended: right after the title come the author line, the publication
\* line and the separator, in this order; without a publication the author line
\* and the separator.
C13_HeaderOrderAmended ==
    TitleInserted =>
        LET k == TitleHeading(page.nodes)
        IN IF ~Falsy(publication)
           THEN /\ PageAround(k, 3)
                /\ TagsAndTexts(k + 1, k + 3) = <<AuthorLine, PublicationLine, Separator>>
           ELSE /\ PageAround(k, 2)
                /\ TagsAndTexts(k + 1, k + 2) = <<AuthorLine, Separator>>

\* a title between two other headings, with author and publication resolved
C13_Witness ==
    /\ TitleInserted
    /\ page.nodes = <<HChrome, HPlain>>
    /\ page.author_el = "link"
    /\ publication = Some(<<"W","i","n","-","W","i","n">>)
    /\ Len(dom) = 5
    /\ dom[3].text = <<"B","y"," ","J","a","n","e">>
    /\ dom[4].text = <<"F","r","o","m",":"," ","W","i","n","-","W","i","n">>
    /\ dom[5].tag = "hr"

\* some element of the returned Content has the text t / a text holding t
ContentHasLine(t) == \E i \in DOMAIN xresult.Content : xresult.Content[i].text = t
ContentHasText(t) == \E i \in DOMAIN xresult.Content : Contains(xresult.Content[i].text, t)

\* C14: an Article returned with a Title other than "Unknown Title" has a Content
\* that holds the title text and the line "By <Author>" and, when a publication
\* is present, the line "From: <Publication>", wherever the title heading sits.
C14_ContentCarriesHeader ==
    (xpc = "returned" /\ xresult.Title # S_Unknown_Title) =>
        /\ ContentHasText(xresult.Title)
        /\ ContentHasLine(<<"B","y"," ">> \o xresult.Author)
        /\ ~Falsy(xresult.Publication) =>
              ContentHasLine(<<"F","r","o","m",":"," ">> \o xresult.Publication.val)

\* the element matches a chrome selector or lies in the subtree of one that does
IsChrome(n) == n.cls \in chrome_selectors \/ n.anc \cap chrome_selectors # {}

\* no element of a serialized content is chrome or repeats the text of a chrome
\* element of the fetched article
ChromeFree(content) ==
    /\ \A i \in DOMAIN content : ~IsChrome(content[i])
    /\ \A k \in DOMAIN page.nodes :
          (page.nodes[k].in_article /\ IsChrome(page.nodes[k])) =>
              \A i \in DOMAIN content : ~Contains(content[i].text, page.nodes[k].text)

NoContentContainer == xpc = "fetched" /\ ~page.has_article

\* C16 as stated: a fetched page without a content container makes
\* get_substack_content raise an error whose message equals "Could not find
\* article content"; no Article is returned and no snapshot is written.
C16_MissingContainerAsStated ==
    [][NoContentContainer =>
          /\ xpc' = "raised"
          /\ xresult' = [kind |-> "error", prefix |-> "",
                         cause |-> "Could not find article content"]
          /\ snapshots' = {}]_vars

\* C16 as amended: the error raised for a fetched page without a content
\* container has the message "Error processing content: Could not find article
\* content" (the extraction error wrapped by the handler of get_substack_content);
\* no Article is returned and no snapshot is written.
C16_MissingContainerAmended ==
    [][NoContentContainer =>
          /\ xpc' = "raised"
          /\ xresult' = [kind |-> "error", prefix |-> "Error processing content: ",
                         cause |-> "Could not find article content"]
          /\ snapshots' = {}]_vars

\* the extraction of a page with headings and metadata but no <article> has ended
C16_Witness ==
    /\ xpc = "raised"
    /\ ~page.has_article
    /\ page.nodes # <<>>
    /\ xresult.kind = "error"
    /\ xresult.cause = "Could not find article content"
    /\ snapshots = {}

-----------------------------------------------------------------------------
(* Claims about both extractors, checked under SpecScraper (continued) *)

\* the fields of a complete Article
ArticleFields == {"kind", "URL", "Title", "Author", "Content", "Publication"}
IsCompleteArticle(a) == DOMAIN a = ArticleFields /\ a.kind = "article"
IsError(e) == e.kind = "error"

\* the primary fetch of get_substack_content failed: nothing was parsed
StructuredFetchFailed ==
    xpc = "raised" /\ xresult.prefix = "Error fetching content: "

\* the primary fetch of get_generic_content failed: it raised (no response) or
\* gave a status that is not 200
GenericFetchFailed == gpc \notin {"off", "start"} /\ gresp.status # 200

\* boilerplate removal gave get_generic_content no content
GenericNoContent ==
    gpc \notin {"off", "start"} /\ gresp.status = 200 /\ gresp.summary = <<>>

-----------------------------------------------------------------------------
(* Claims about get_substack_content, checked under SpecExtract (continued) *)

\* C18: author resolution never aborts the extraction of a page that has a content
\* container: Author is the link text of the profile marker when the marker and
\* its link exist, and "Unknown Author" otherwise (marker absent, or marker
\* without a link).
C18_AuthorNeverAborts ==
    [][(xpc = "fetched" /\ page.has_article) =>
          /\ xpc' = "meta"
          /\ author' = IF page.author_el = "link" THEN Strip(AuthorLinkText)
                       ELSE S_Unknown_Author]_vars

-----------------------------------------------------------------------------
(* Claims about both extractors, checked under SpecScraper (continued) *)

\* C19: writing the debug snapshot is best-effort in both extractors: whether or
\* not os.makedirs and the write succeed, get_substack_content returns the Article
\* built from the sanitized content, and get_generic_content goes on to the
\* metadata and its return.
C19_SnapshotBestEffort ==
    [][/\ xpc = "sanitized" =>
             /\ xpc' = "returned"
             /\ xresult' = [kind |-> "article", URL |-> xurl, Title |-> xtitle.val,
                            Author |-> author, Content |-> ArticleContent(dom),
                            Publication |-> publication]
       /\ gpc = "extracted" => gpc' = "saved"]_vars

-----------------------------------------------------------------------------
(* Claims about convert_to_epub, checked under SpecEpub (continued) *)

\* the staged files download_image wrote to article_dir during this conversion
WrittenFiles ==
    {download_image(imgs[i], fetched[i]).wrote :
        i \in {j \in DOMAIN fetched : imgs[j] # NoSrc}} \ {<<>>}

\* C20: after the package was written and read back, every staged image file of
\* the conversion has been deleted if the package holds at least one image
\* resource, and every staged file is kept if it holds none; either way the
\* package path is returned.
C20_CleanupAfterVerify ==
    (epc = "done" /\ caller = "direct") =>
        /\ result = epub_path(title)
        /\ ReadBackImageCount(items) > 0 => staged = {}
        /\ ReadBackImageCount(items) = 0 => staged = WrittenFiles

-----------------------------------------------------------------------------
(* Claims about the end of convert_to_epub, checked under SpecEpub *)

\* epub.write_epub raised: the conversion is past process_images and the file at
\* epub_path was not completed
WriteRaised == caller = "direct" /\ epc \notin {"idle", "images"} /\ package # "written"

\* the try block after the write raised
VerifyRaised == verify = "raised"

\* C21 as stated: when the write or the verification raises, convert_to_epub
\* ends with an error and no path, and every file it wrote is still on disk.
C21_PackagingErrorAsStated ==
    /\ WriteRaised => (epc = "raised" /\ result.kind = "error" /\ staged = WrittenFiles)
    /\ VerifyRaised => /\ epc = "raised" /\ result.kind = "error"
                       /\ staged = WrittenFiles /\ package = "written"

\* C21 as amended: when the write raises, convert_to_epub ends with that
\* exception and returns no path; when the verification raises, the exception
\* is logged and the package path is returned all the same; in both cases every
\* file the conversion wrote is still on disk.
C21_PackagingErrorAmended ==
    /\ WriteRaised => (epc = "raised" /\ result.kind = "error" /\ staged = WrittenFiles)
    /\ VerifyRaised => /\ epc = "done" /\ result = epub_path(title)
                       /\ staged = WrittenFiles /\ package = "written"

\* the verification raised after an image file was staged
C21_Witness ==
    /\ VerifyRaised
    /\ \E f \in staged : HasImageExt(f)
    /\ Len(items) > 0


\* C22: the package convert_to_epub wrote, read back, holds as many embedded
\* image resources as images were localized during assembly (processed_count).
C22_ReadBackCountIsProcessedCount ==
    (epc = "done" /\ verify = "ok") => ReadBackImageCount(items) = processed_count


\* C26: within one conversion the images are requested one at a time in document
\* order and without retry: a request is made only by the loop at its position
\* idx, for the image at that position, after the requests of all earlier images
\* ended; the loop then moves on whether the request succeeded or failed, so no
\* image is requested twice and there are never more requests than images.
C26_FetchesInOrderNoRetry ==
    [][/\ Len(fetched') <= Len(imgs)
       /\ fetched' # fetched =>
            /\ epc = "images"
            /\ Len(fetched) = idx - 1
            /\ Len(fetched') = idx
            /\ SubSeq(fetched', 1, idx - 1) = fetched
            /\ (fetched'[idx] = NoFetch) = (imgs[idx] = NoSrc)
            /\ idx' = idx + 1]_vars

\* the first fetch failed and the loop went on to request the second image
C26_Witness ==
    /\ Len(fetched) >= 2
    /\ FetchFailed(1)
    /\ fetched[2].kind # "none"
    /\ failed_count >= 1

-----------------------------------------------------------------------------
(* Claims about the janitor, checked under SpecJanitor *)

\* the files the pass has deleted, and the files there were when it began
DeletedFiles == {attempts[i].file : i \in {k \in DOMAIN attempts : attempts[k].deleted}}
FilesAtStart == jfiles \cup DeletedFiles

\* snapshots and packages, pooled
Pooled == Glob(HTML_DIR, S_dot_html, FilesAtStart) \cup Glob(EPUBS_DIR, S_dot_epub, FilesAtStart)

\* the bytes freed by the first n attempts
RECURSIVE FreedBy(_)
FreedBy(n) ==
    IF n = 0 THEN 0
    ELSE FreedBy(n - 1) + (IF attempts[n].deleted THEN attempts[n].file.size ELSE 0)

SpaceNeeded == DISK_SPACE_THRESHOLD - free_space

\* the for loop of cleanup_old_files has ended
DeletionEnded == jpc \in {"walk_html", "walk_epubs", "returned"}

\* C23: a janitor pass tries the pooled snapshot and package files in
\* non-decreasing modification-time order and only while the bytes freed are
\* below threshold minus free space; so nothing is deleted once the need is met
\* or when free space is at or above the threshold, a file is deleted only
\* after every older pooled file was tried, the loop ends only with the need
\* met or every pooled file tried, and the value returned is the total size of
\* the files deleted.
C23_OldestFirstUntilNeedMet ==
    /\ \A i, j \in DOMAIN attempts : i < j => attempts[i].file.mtime <= attempts[j].file.mtime
    /\ \A i \in DOMAIN attempts : FreedBy(i - 1) < SpaceNeeded
    /\ free_space >= DISK_SPACE_THRESHOLD => (attempts = <<>> /\ DeletedFiles = {})
    /\ DeletedFiles \subseteq Pooled
    /\ \A i \in DOMAIN attempts :
          \A g \in Pooled : g.mtime < attempts[i].file.mtime =>
              \E k \in 1..(i - 1) : attempts[k].file = g
    /\ DeletionEnded =>
          \/ FreedBy(Len(attempts)) >= SpaceNeeded
          \/ \A g \in Pooled : \E k \in DOMAIN attempts : attempts[k].file = g
    /\ jpc = "returned" => jret = FreedBy(Len(attempts))

\* a pass that deleted a snapshot and a package and left a newer pooled file
\* alone because the need was met
C23_Witness ==
    /\ jpc = "returned"
    /\ \E f, g \in DeletedFiles : f.dir = HTML_DIR /\ g.dir # HTML_DIR
    /\ \E h \in Pooled \cap jfiles : h.removable
    /\ jret >= SpaceNeeded

\* no directory below root is empty
NoEmptyBelow(root) ==
    \A d \in jdirs : IsBelow(d, root) => ListDir(d, jdirs, jfiles) # {}

\* a step of delete_empty_directories removes no file, and no directory that
\* holds a file, in it or below it
WalkRemovesOnlyEmpty ==
    jpc \in {"walk_html", "walk_epubs"} =>
        /\ jfiles' = jfiles
        /\ jdirs' \subseteq jdirs
        /\ \A d \in jdirs \ jdirs' :
              \A f \in jfiles : f.dir # d /\ ~IsBelow(f.dir, d)

-----------------------------------------------------------------------------
(* Claims about the janitor beside a request, checked under SpecDelivery *)

-----------------------------------------------------------------------------
(* Claims about the bot and the cli, checked under SpecBot *)

IsPrefix(s, t) == Len(s) <= Len(t) /\ SubSeq(t, 1, Len(s)) = s

\* extraction, assembly and delivery can all succeed, for a user with an address
AllCanSucceed ==
    /\ env.content = "article" /\ env.convert = "path" /\ env.send = "ok"
    /\ requester = "bot" => kindle_email.some

\* C25: the stages of a request run in the order classify, extract, assemble,
\* deliver, report, each after the one before it returned without error; when
\* extraction, assembly and delivery can all succeed for a user with an address,
\* the request ends with the assembler's package delivered and success
\* reported; a success reply or an Article row exists only if the package was
\* delivered.
C25_StagesInOrderToDelivery ==
    /\ IsPrefix(stages, StageOrder)
    /\ (bpc = "ended" /\ AllCanSucceed) =>
          /\ sent = {[package |-> epub_path(T_MyPost)]}
          /\ replies # <<>> /\ replies[Len(replies)] = "sent"
    /\ ("sent" \in Range(replies) \/ articles # {}) => sent # {}

\* C29: in the EMAIL state, process_email hands a text to process_link only if
\* it is a valid URL, stores an address and ends the conversation only for a
\* text ending with '@kindle.com', and otherwise stays in the EMAIL state,
\* asks for a valid address and leaves the stored address alone.
C29_EmailStateHandling ==
    [][(conv = "EMAIL" /\ bpc = "idle" /\ origin' # "cli") =>
          /\ bpc' = "started" => validators_url(burl')
          /\ kindle_email' # kindle_email =>
                (EndsWith(kindle_email'.val, S_at_kindle_com) /\ conv' = "END")
          /\ (bpc' = "idle" /\ conv' = "EMAIL") =>
                (replies' = Append(replies, "ask_address") /\ kindle_email' = kindle_email)]_vars

-----------------------------------------------------------------------------
(* Claims about conversions side by side, checked under SpecRace *)

Other(r) == 3 - r

\* run r staged an image and has not verified yet
OwnFilePending(r) == rpc[r] \in {"assembled", "written"} /\ rimg[r] # NoImage

\* a step of a run's write leaves that run's package at its path, whatever was
\* there; a step of a run's verification that finds an image item leaves no
\* image file in the run's directory, whoever staged it
RaceMechanism ==
    \A r \in Runs :
        /\ (rpc[r] = "assembled" /\ rpc'[r] = "written") =>
              fs_pkg'[PackagePath(rtitle[r])] = r
        /\ (rpc[r] = "written" /\ rpc'[r] = "done" /\ PackageImageCount(readback'[r]) > 0) =>
              \A f \in fs_staged' : ~(f.dir = article_dir(rtitle[r]) /\ HasImageExt(f.name))

\* C27: two runs with the same title use the same package path and directory,
\* the write replaces the file at the path and the cleanup takes every image
\* file of the directory; so there is an interleaving in which one run's
\* package is overwritten by the other before it verifies and returns, and in
\* which its cleanup deletes a staged file of the other (C27_Witness).
C27_SamePathRace == [][RaceMechanism]_vars

\* run a returned while the file at its path is the other run's package, which
\* is what it read back, and its cleanup removed a file the other run staged
C27_Witness ==
    \E a \in Runs :
        /\ rtitle[a] = rtitle[Other(a)]
        /\ rpc[a] = "done"
        /\ fs_pkg[PackagePath(rtitle[a])] = Other(a)
        /\ readback[a] = Other(a)
        /\ \E f \in removed[a] : f.writer = Other(a)
        /\ OwnFilePending(Other(a))

====
